---------------------------- MODULE Spec2Model ----------------------------
(***************************************************************************)
(* A model of the SVG3 runtime (src/svg3-complete.js): the AnimationEngine *)
(* with its clock, its registry of tracks and the node registry it writes. *)
(*                                                                         *)
(* JavaScript numbers are modelled as binary floating-point values with a  *)
(* MantissaBits-bit significand and an unbounded exponent: a number is a   *)
(* pair <<n, d>>, the reduced fraction n/d with d > 0, and <<1,0>>,        *)
(* <<-1,0>>, <<0,0>> stand for +Infinity, -Infinity and NaN.  Every        *)
(* arithmetic operation rounds its exact result to the nearest value with  *)
(* a MantissaBits-bit significand, ties to even, as IEEE 754 does (signed  *)
(* zeros, subnormals and overflow are not modelled).                       *)
(***************************************************************************)
EXTENDS Integers, Sequences, FiniteSets, TLC

\* Significand width of the modelled floating-point format (53 in an IEEE double).
MantissaBits == 4

--------------------------------------------------------------------------
\* JavaScript Number arithmetic

NaN == <<0, 0>>
PosInf == <<1, 0>>
NegInf == <<-1, 0>>

Abs(x) == IF x < 0 THEN -x ELSE x
Sign(x) == IF x < 0 THEN -1 ELSE IF x > 0 THEN 1 ELSE 0

RECURSIVE GCD(_, _)
GCD(a, b) == IF b = 0 THEN a ELSE GCD(b, a % b)

RECURSIVE Pow2(_)
Pow2(k) == IF k = 0 THEN 1 ELSE 2 * Pow2(k - 1)

Reduce(n, d, g) == <<n \div g, d \div g>>

\* The reduced fraction n/d (d # 0).
Frac(n, d) ==
  IF d < 0 THEN Reduce(-n, -d, GCD(Abs(n), Abs(d)))
  ELSE Reduce(n, d, GCD(Abs(n), Abs(d)))

IsNaN(x) == x = NaN
IsFinite(x) == x[2] # 0
IsInf(x) == x[2] = 0 /\ x[1] # 0

\* The integer nearest to num/den (num >= 0, den > 0), ties to even.
Nearest(num, den) ==
  IF 2 * (num % den) > den \/ (2 * (num % den) = den /\ (num \div den) % 2 = 1)
  THEN (num \div den) + 1
  ELSE num \div den

\* a/d with a, d > 0, scaled by a power of two (up/dn) until the quotient lies in
\* [2^(MantissaBits-1), 2^MantissaBits), then rounded to an integer, ties to even.
RECURSIVE RoundPos(_, _, _, _)
RoundPos(a, d, up, dn) ==
  IF a * up < Pow2(MantissaBits - 1) * d * dn THEN RoundPos(a, d, 2 * up, dn)
  ELSE IF a * up >= Pow2(MantissaBits) * d * dn THEN RoundPos(a, d, up, 2 * dn)
  ELSE Frac(Nearest(a * up, d * dn) * dn, up)

WithSign(s, r) == <<s * r[1], r[2]>>

\* Round to nearest, ties to even: the floating-point value of the fraction n/d.
Round(x) ==
  IF x[2] = 0 \/ x[1] = 0 THEN x
  ELSE WithSign(Sign(x[1]), RoundPos(Abs(x[1]), x[2], 1, 1))

Neg(x) == <<-x[1], x[2]>>

\* x + y
FAdd(x, y) ==
  IF IsNaN(x) \/ IsNaN(y) THEN NaN
  ELSE IF IsInf(x) /\ IsInf(y) THEN (IF x = y THEN x ELSE NaN)
  ELSE IF IsInf(x) THEN x
  ELSE IF IsInf(y) THEN y
  ELSE Round(Frac(x[1] * y[2] + y[1] * x[2], x[2] * y[2]))

\* x - y
FSub(x, y) == FAdd(x, Neg(y))

\* x * y
FMul(x, y) ==
  IF IsNaN(x) \/ IsNaN(y) THEN NaN
  ELSE IF IsInf(x) \/ IsInf(y)
       THEN (IF x[1] = 0 \/ y[1] = 0 THEN NaN ELSE <<Sign(x[1]) * Sign(y[1]), 0>>)
  ELSE Round(Frac(x[1] * y[1], x[2] * y[2]))

\* x / y
FDiv(x, y) ==
  IF IsNaN(x) \/ IsNaN(y) THEN NaN
  ELSE IF IsInf(x) THEN (IF IsInf(y) THEN NaN
                         ELSE <<x[1] * (IF y[1] < 0 THEN -1 ELSE 1), 0>>)
  ELSE IF IsInf(y) THEN <<0, 1>>
  ELSE IF y[1] = 0 THEN (IF x[1] = 0 THEN NaN ELSE <<Sign(x[1]), 0>>)
  ELSE Round(Frac(x[1] * y[2], x[2] * y[1]))

\* x < y, x <= y, x >= y: false when either side is NaN
FLt(x, y) ==
  /\ ~IsNaN(x) /\ ~IsNaN(y)
  /\ IF IsInf(x) \/ IsInf(y)
     THEN x # y /\ (x = NegInf \/ y = PosInf)
     ELSE x[1] * y[2] < y[1] * x[2]
FLe(x, y) == ~IsNaN(x) /\ ~IsNaN(y) /\ (x = y \/ FLt(x, y))
FGe(x, y) == FLe(y, x)

\* Math.min(x, y): NaN when either argument is NaN
FMin(x, y) == IF IsNaN(x) \/ IsNaN(y) THEN NaN ELSE IF FLt(y, x) THEN y ELSE x

\* The number a decimal literal n/d denotes (the nearest floating-point value).
Lit(n, d) == Round(Frac(n, d))

Zero == Lit(0, 1)
One == Lit(1, 1)

\* The square root of a/d (a, d > 0): a/d is scaled by a power of four
\* (up/dn, the square of sup/sdn) until it lies in [4^(MantissaBits-1),
\* 4^MantissaBits), the root m of the scaled value is rounded to an integer,
\* ties to even, and scaled back.
RootFloor(n, d) ==
  CHOOSE m \in Pow2(MantissaBits - 1)..(Pow2(MantissaBits) - 1) :
    m * m * d <= n /\ n < (m + 1) * (m + 1) * d

RootNearest(n, d, m) ==
  IF 4 * n > (4 * m * m + 4 * m + 1) * d
       \/ (4 * n = (4 * m * m + 4 * m + 1) * d /\ m % 2 = 1)
  THEN m + 1
  ELSE m

RECURSIVE SqrtPos(_, _, _, _, _, _)
SqrtPos(a, d, up, dn, sup, sdn) ==
  IF a * up < Pow2(2 * MantissaBits - 2) * d * dn
  THEN SqrtPos(a, d, 4 * up, dn, 2 * sup, sdn)
  ELSE IF a * up >= Pow2(2 * MantissaBits) * d * dn
       THEN SqrtPos(a, d, up, 4 * dn, sup, 2 * sdn)
       ELSE Frac(RootNearest(a * up, d * dn, RootFloor(a * up, d * dn)) * sdn, sup)

\* Math.sqrt(x): the correctly rounded square root, NaN for a negative number
FSqrt(x) ==
  IF IsNaN(x) \/ x = NegInf THEN NaN
  ELSE IF x = PosInf \/ x[1] = 0 THEN x
  ELSE IF x[1] < 0 THEN NaN
  ELSE SqrtPos(x[1], x[2], 1, 1, 1, 1)

--------------------------------------------------------------------------
\* Strings, as far as the runtime takes them apart.
\*  - a comma-separated vector attribute ("0,6.28,0") is the sequence of its
\*    pieces (<<"0", "6.28", "0">>): a string always has at least one piece,
\*    and the empty sequence stands for an attribute that is null/undefined;
\*  - a time attribute ("8s", "500ms") is the pair <<number text, unit text>>;
\*  - an optional value is <<>> (null/undefined) or <<v>>.

Null == <<>>
Some(v) == <<v>>

\* parseFloat of a piece of text: the number its longest numeric prefix denotes
\* (ignoring leading blanks), NaN when there is none.
parseFloat(tok) ==
  CASE tok = "0" -> Lit(0, 1)
    [] tok = "1" -> Lit(1, 1)
    [] tok = " 1" -> Lit(1, 1)
    [] tok = "2" -> Lit(2, 1)
    [] tok = "3" -> Lit(3, 1)
    [] tok = "4" -> Lit(4, 1)
    [] tok = "8" -> Lit(8, 1)
    [] tok = "-3" -> Lit(-3, 1)
    [] tok = "0.1" -> Lit(1, 10)
    [] tok = "0.5" -> Lit(1, 2)
    [] tok = "-0.9" -> Lit(-9, 10)
    [] tok = "6.28" -> Lit(628, 100)
    [] tok = "2000" -> Lit(2000, 1)
    [] OTHER -> NaN

\* parseInt of a piece of text or of a number.
parseInt(v) ==
  IF v[1] = "num" THEN v[2]
  ELSE CASE v[2] = "0" -> Lit(0, 1)
         [] v[2] = "1" -> Lit(1, 1)
         [] v[2] = "2" -> Lit(2, 1)
         [] v[2] = "3" -> Lit(3, 1)
         [] OTHER -> NaN

\* Texts the class [\d.]+ of parseTime's pattern matches in full.
DigitsAndDots == {"0", "1", "2", "3", "4", "8", "0.1", "0.5", "6.28", "2000"}

\* AnimationEngine.parseTime
parseTime(timeStr) ==
  IF ~(timeStr[1] \in DigitsAndDots /\ timeStr[2] \in {"", "s", "ms"}) THEN Zero
  ELSE IF timeStr[2] = "ms" THEN FDiv(parseFloat(timeStr[1]), Lit(1000, 1))
  ELSE parseFloat(timeStr[1])

\* AnimationEngine.parseValues
parseValues(valueStr) ==
  IF valueStr = Null THEN <<>>
  ELSE [i \in 1..Len(valueStr) |-> parseFloat(valueStr[i])]

\* propName.split('.')
SplitPath(propName) ==
  CASE propName = "material.metalness" -> <<"material", "metalness">>
    [] propName = "transform.rotation" -> <<"transform", "rotation">>
    [] OTHER -> <<propName>>

\* a[i] of a JavaScript array of numbers used in arithmetic (i counted from 0):
\* undefined, hence NaN, outside the array.
NumAt(a, i) == IF i + 1 \in 1..Len(a) THEN a[i + 1] ELSE NaN

\* a[i] of a JavaScript array of strings handed to parseValues (i counted from
\* 0): undefined outside the array.
StrAt(a, i) == IF i + 1 \in 1..Len(a) THEN a[i + 1] ELSE Null

--------------------------------------------------------------------------
\* State

VARIABLES
  clock,             \* AnimationEngine.clock: [time, delta]
  activeAnimations,  \* AnimationEngine.activeAnimations, a Map in insertion
                     \* order: a sequence of [key, anim]
  objects,           \* the node registry handed to update: id -> node
  animations,        \* the parsed document's tracks (sceneData.animations)
  registered,        \* how many of them setupAnimations has registered
  history,           \* the calls made on the engine since its construction
  evals,             \* what the last call evaluated: [key, mode, progress]
  error,             \* the exception the last call raised, "" when it returned
  rotationControllers, \* SVG3ThreeRenderer.rotationControllers, a Map: a
                     \* sequence of [objectId, controller]
  event,             \* the last canvas event or controller call handled, and
                     \* how many there were: [n, type, at]
  pointer,           \* what the user has done with the pointer: [pressed, at,
                     \* samples, dragged], samples the drag deltas since the
                     \* last reset, dragged the number of all drag deltas
  initial,           \* the node registry as it was when the controller (or
                     \* the skeleton) was set up
  calls,             \* the calls the last animate() or the last
                     \* stateMachine.update() made, in order
  cameras,           \* how many cameras the built scene has
  bones,             \* SVG3GameController.bones, a Map: a sequence of [id, bone]
  character,         \* the GameCharacter: [puppets, stateMachine, ikSolvers]
  saved,             \* the bone states the caller last took with getState()
  browser,           \* the browser's time and the callbacks it holds:
                     \* [now, callbacks], now Date.now() in ms, callbacks the
                     \* requested animation frames and the timeouts, in order
  parser             \* the SVG3Parser: [animationTracks, returned], returned
                     \* the scene objects its parse calls have returned

engineVars == <<clock, activeAnimations, animations, registered, evals, error>>
controlVars == <<rotationControllers, event, pointer>>
loopVars == <<calls, cameras, browser, parser>>
gameVars == <<bones, character, saved>>

vars ==
  <<clock, activeAnimations, objects, animations, registered, history, evals, error,
    rotationControllers, event, pointer, initial, calls, cameras, bones,
    character, saved, browser, parser>>

\* A browser that holds no callback.
NoBrowser == [now |-> 0, callbacks |-> <<>>]

\* new SVG3Parser(): no track collected, no scene object returned.
NoParser == [animationTracks |-> <<>>, returned |-> <<>>]

\* No GameCharacter constructed: no puppets, a state machine without states that
\* has entered none, no IK solvers.
NoMachine == [states |-> <<>>, currentState |-> <<>>, transitions |-> <<>>]
NoCharacter == [puppets |-> <<>>, stateMachine |-> NoMachine, ikSolvers |-> <<>>]

\* No canvas event handled yet, no pointer action yet.
NoEvent == [n |-> 0, type |-> "", at |-> <<>>]
NoPointer == [pressed |-> FALSE, at |-> <<0, 0>>, samples |-> <<>>, dragged |-> 0]

\* A node as the scene graph builder leaves it: the parser's default transform
\* and a material. Its rotation is an object with x, y, z (rotationKind
\* "Euler": the components are held in order) until an array is assigned to it
\* (rotationKind "Array").
NewNode ==
  [position |-> <<Zero, Zero, Zero>>,
   rotation |-> <<Zero, Zero, Zero>>,
   rotationKind |-> "Euler",
   scale |-> <<One, One, One>>,
   material |-> [metalness |-> Zero]]

\* The node registry of a built scene.
BuiltObjects == [id \in {"cube"} |-> NewNode]

\* Walking `parts` down from `value` reads a property of undefined: a part
\* before the last one is missing. getPropertyValue and setPropertyValue then
\* raise a TypeError.
RECURSIVE PathFails(_, _)
PathFails(value, parts) ==
  /\ Len(parts) > 1
  /\ \/ Head(parts) \notin DOMAIN value
     \/ PathFails(value[Head(parts)], Tail(parts))

\* getPropertyValue(obj, propName) / setPropertyValue(obj, propName, value) throws
PropertyFails(obj, propName) == PathFails(obj, SplitPath(propName))

\* AnimationEngine.getPropertyValue, for a path that resolves
RECURSIVE GetPath(_, _)
GetPath(value, parts) ==
  IF parts = <<>> THEN value ELSE GetPath(value[Head(parts)], Tail(parts))

getPropertyValue(obj, propName) == GetPath(obj, SplitPath(propName))

\* AnimationEngine.setPropertyValue, for a path that resolves
RECURSIVE SetPath(_, _, _)
SetPath(current, parts, value) ==
  IF Len(parts) = 1 THEN [current EXCEPT ![parts[1]] = value]
  ELSE [current EXCEPT ![Head(parts)] = SetPath(current[Head(parts)], Tail(parts), value)]

setPropertyValue(obj, propName, value) ==
  IF SplitPath(propName) = <<"rotation">>
  THEN [SetPath(obj, SplitPath(propName), value) EXCEPT !.rotationKind = "Array"]
  ELSE SetPath(obj, SplitPath(propName), value)

\* Lerp without its start value: to * progress
LerpFromZero(from, to, progress) == FMul(to, progress)

\* The callback both interpolations map over the start vector:
\* from + (to - from) * progress
Lerp(from, to, progress) == FAdd(from, FMul(FSub(to, from), progress))

\* fromValues.map((from, i) => ... toValues[i] ...)
Interpolate(fromValues, toValues, progress) ==
  [i \in 1..Len(fromValues) |-> Lerp(fromValues[i], NumAt(toValues, i - 1), progress)]

\* The value applySimpleAnimation computes.
SimpleValue(anim, progress) ==
  Interpolate(parseValues(anim.from), parseValues(anim.to), progress)

\* AnimationEngine.applySimpleAnimation
applySimpleAnimation(obj, anim, progress) ==
  setPropertyValue(obj, anim.attributeName, SimpleValue(anim, progress))

\* KeyIndex when the loop stops at its first hit: the first index i (from 0)
\* with keyTimes[i] <= progress, 0 when there is none.
KeyIndexFirst(keyTimes, progress) ==
  IF \A i \in 1..Len(keyTimes) : ~FLe(keyTimes[i], progress) THEN 0
  ELSE CHOOSE i \in 0..(Len(keyTimes) - 1) :
         /\ FLe(keyTimes[i + 1], progress)
         /\ \A j \in 0..(i - 1) : ~FLe(keyTimes[j + 1], progress)

\* The loop of applyKeyframeAnimation: the last index i (from 0) with
\* keyTimes[i] <= progress, 0 when there is none.
KeyIndex(keyTimes, progress) ==
  IF \A i \in 1..Len(keyTimes) : ~FLe(keyTimes[i], progress) THEN 0
  ELSE CHOOSE i \in 0..(Len(keyTimes) - 1) :
         /\ FLe(keyTimes[i + 1], progress)
         /\ \A j \in (i + 1)..(Len(keyTimes) - 1) : ~FLe(keyTimes[j + 1], progress)

\* Math.min(keyIndex + 1, anim.keyTimes.length - 1)
NextKeyIndex(keyTimes, keyIndex) ==
  IF keyIndex + 1 < Len(keyTimes) - 1 THEN keyIndex + 1 ELSE Len(keyTimes) - 1

\* (progress - keyTimes[keyIndex]) / (keyTimes[nextKeyIndex] - keyTimes[keyIndex])
KeyProgress(keyTimes, progress, keyIndex, nextKeyIndex) ==
  FDiv(FSub(progress, NumAt(keyTimes, keyIndex)),
       FSub(NumAt(keyTimes, nextKeyIndex), NumAt(keyTimes, keyIndex)))

\* The interpolation of applyKeyframeAnimation between two keyframes.
KeyframeBetween(keyTimes, values, progress, keyIndex, nextKeyIndex) ==
  Interpolate(parseValues(StrAt(values, keyIndex)),
              parseValues(StrAt(values, nextKeyIndex)),
              KeyProgress(keyTimes, progress, keyIndex, nextKeyIndex))

KeyframeFrom(keyTimes, values, progress, keyIndex) ==
  KeyframeBetween(keyTimes, values, progress, keyIndex, NextKeyIndex(keyTimes, keyIndex))

\* The value applyKeyframeAnimation computes.
KeyframeValue(anim, progress) ==
  KeyframeFrom(anim.keyTimes[1], anim.values[1], progress,
               KeyIndex(anim.keyTimes[1], progress))

\* AnimationEngine.applyKeyframeAnimation
applyKeyframeAnimation(obj, anim, progress) ==
  setPropertyValue(obj, anim.attributeName, KeyframeValue(anim, progress))

\* `anim.values && anim.keyTimes`: both present (an array, even empty, is truthy)
IsKeyframe(anim) == anim.values # Null /\ anim.keyTimes # Null

\* The key of registerAnimation: `${targetId}-${animationData.attributeName}`
AnimKey(targetId, animationData) == targetId \o "-" \o animationData.attributeName

\* The track object registerAnimation stores.
NewAnim(targetId, animationData) ==
  [targetId |-> targetId,
   type |-> animationData.type,
   attributeName |-> animationData.attributeName,
   from |-> animationData.from,
   to |-> animationData.to,
   dur |-> animationData.dur,
   begin |-> animationData.begin,
   end |-> animationData.end,
   repeatCount |-> animationData.repeatCount,
   fill |-> animationData.fill,
   values |-> animationData.values,
   keyTimes |-> animationData.keyTimes,
   startTime |-> parseTime(animationData.begin),
   duration |-> parseTime(animationData.dur),
   endTime |-> IF animationData.end # Null THEN Some(parseTime(animationData.end[1]))
               ELSE Null,
   startValue |-> Null,
   targetValue |-> Null,
   isActive |-> FALSE,
   hasStarted |-> FALSE,
   elapsed |-> Zero]

\* A list's push for the Map's set: the entry goes to the end whatever the key.
MapPush(map, key, value) == Append(map, [key |-> key, anim |-> value])

\* Map.prototype.set: the value of an existing key is replaced where it stands,
\* a new key goes to the end.
MapSet(map, key, value) ==
  IF \E i \in 1..Len(map) : map[i].key = key
  THEN [i \in 1..Len(map) |->
          IF map[i].key = key THEN [key |-> key, anim |-> value] ELSE map[i]]
  ELSE Append(map, [key |-> key, anim |-> value])

\* AnimationEngine.registerAnimation: the registry after the call
registerAnimation(map, targetId, animationData) ==
  MapSet(map, AnimKey(targetId, animationData), NewAnim(targetId, animationData))

\* StartAnim without the comparison of the clock with startTime: a track
\* starts in the first update after its registration.
StartAnimEarly(anim, obj, time) ==
  IF ~anim.hasStarted
  THEN IF PropertyFails(obj, anim.attributeName)
       THEN [anim EXCEPT !.hasStarted = TRUE, !.isActive = TRUE]
       ELSE [anim EXCEPT !.hasStarted = TRUE,
                         !.isActive = TRUE,
                         !.startValue = Some(getPropertyValue(obj, anim.attributeName))]
  ELSE anim

\* The start check of update, for a track whose target exists.
StartAnim(anim, obj, time) ==
  IF ~anim.hasStarted /\ FGe(time, anim.startTime)
  THEN IF PropertyFails(obj, anim.attributeName)
       THEN [anim EXCEPT !.hasStarted = TRUE, !.isActive = TRUE]
       ELSE [anim EXCEPT !.hasStarted = TRUE,
                         !.isActive = TRUE,
                         !.startValue = Some(getPropertyValue(obj, anim.attributeName))]
  ELSE anim

\* The start check throws: startValue is read along a path that does not resolve.
StartFails(anim, obj, time) ==
  ~anim.hasStarted /\ FGe(time, anim.startTime) /\ PropertyFails(obj, anim.attributeName)

\* Math.min(anim.elapsed / anim.duration, 1)
Progress(elapsed, duration) == FMin(FDiv(elapsed, duration), One)

\* The end check of update, for an active track evaluated at `progress`
\* (anim.elapsed already set).
EndAnim(anim, progress) ==
  IF ~FGe(progress, One) THEN anim
  ELSE IF anim.repeatCount[1] = "str" /\ anim.repeatCount[2] = "indefinite"
       THEN [anim EXCEPT !.elapsed = Zero, !.hasStarted = FALSE]
  ELSE IF FLt(One, parseInt(anim.repeatCount))
       THEN [anim EXCEPT !.repeatCount = <<"num", FSub(parseInt(anim.repeatCount), One)>>,
                         !.elapsed = Zero,
                         !.hasStarted = FALSE]
  ELSE [anim EXCEPT !.isActive = FALSE]

\* update's `if (anim.isActive)` block for an active track: evaluate at
\* `progress`, write the node, check the end.
EvalAnim(key, anim, objs, progress) ==
  IF PropertyFails(objs[anim.targetId], anim.attributeName)
  THEN [anim |-> anim, objs |-> objs, evals |-> <<>>, threw |-> TRUE]
  ELSE [anim |-> EndAnim(anim, progress),
        objs |-> [objs EXCEPT ![anim.targetId] =
                    IF IsKeyframe(anim)
                    THEN applyKeyframeAnimation(objs[anim.targetId], anim, progress)
                    ELSE applySimpleAnimation(objs[anim.targetId], anim, progress)],
        evals |-> <<[key |-> key,
                     mode |-> IF IsKeyframe(anim) THEN "keyframe" ELSE "simple",
                     progress |-> progress]>>,
        threw |-> FALSE]

\* TimeAnim with `+=` for `=`: anim.elapsed += this.clock.time - anim.startTime
TimeAnimAdding(key, anim, objs, elapsed) ==
  EvalAnim(key, [anim EXCEPT !.elapsed = FAdd(anim.elapsed, elapsed)], objs,
           Progress(FAdd(anim.elapsed, elapsed), anim.duration))

\* anim.elapsed = this.clock.time - anim.startTime, and the block above
TimeAnim(key, anim, objs, elapsed) ==
  EvalAnim(key, [anim EXCEPT !.elapsed = elapsed], objs, Progress(elapsed, anim.duration))

\* RunAnim without the `if (anim.isActive)`: every track whose target exists is
\* evaluated.
RunAnimAlways(key, anim, objs, time) ==
  TimeAnim(key, anim, objs, FSub(time, anim.startTime))

\* update's forEach callback after the start check
RunAnim(key, anim, objs, time) ==
  IF ~anim.isActive THEN [anim |-> anim, objs |-> objs, evals |-> <<>>, threw |-> FALSE]
  ELSE TimeAnim(key, anim, objs, FSub(time, anim.startTime))

\* UpdateAnim without the `if (!obj) return`: a track whose target is missing
\* reads a property of undefined.
UpdateAnimUnguarded(key, anim, objs, time) ==
  IF anim.targetId \notin DOMAIN objs
  THEN [anim |-> anim, objs |-> objs, evals |-> <<>>, threw |-> TRUE]
  ELSE RunAnim(key, StartAnim(anim, objs[anim.targetId], time), objs, time)

\* One turn of update's forEach: the track, the nodes, what was evaluated and
\* whether the callback threw.
UpdateAnim(key, anim, objs, time) ==
  IF anim.targetId \notin DOMAIN objs
  THEN [anim |-> anim, objs |-> objs, evals |-> <<>>, threw |-> FALSE]
  ELSE IF StartFails(anim, objs[anim.targetId], time)
  THEN [anim |-> StartAnim(anim, objs[anim.targetId], time), objs |-> objs,
        evals |-> <<>>, threw |-> TRUE]
  ELSE RunAnim(key, StartAnim(anim, objs[anim.targetId], time), objs, time)

\* update's forEach over the registry from entry i on; r is the outcome of
\* entry i - 1. An exception thrown by a callback ends the forEach.
RECURSIVE UpdateFrom(_, _, _, _, _)
UpdateNext(i, map, r, time, seen) ==
  IF r.threw
  THEN [map |-> [map EXCEPT ![i].anim = r.anim], objs |-> r.objs,
        evals |-> seen \o r.evals, threw |-> TRUE]
  ELSE UpdateFrom(i + 1, [map EXCEPT ![i].anim = r.anim], r.objs, time, seen \o r.evals)

UpdateFrom(i, map, objs, time, seen) ==
  IF i > Len(map) THEN [map |-> map, objs |-> objs, evals |-> seen, threw |-> FALSE]
  ELSE UpdateNext(i, map, UpdateAnim(map[i].key, map[i].anim, objs, time), time, seen)

--------------------------------------------------------------------------
\* Documents: the tracks SVG3Parser.parseAnimations yields for the animate
\* elements of a scene.

\* The animation object of an <animate> element with the parser's defaults
\* (dur 1s, begin 0s, repeatCount 1, fill freeze) where no attribute is given.
Animate(attributeName, from, to, dur, begin, repeatCount, fill, values, keyTimes) ==
  [type |-> "animate", attributeName |-> attributeName, from |-> from, to |-> to,
   dur |-> dur, begin |-> begin, end |-> Null,
   repeatCount |-> <<"str", repeatCount>>, fill |-> fill,
   values |-> values, keyTimes |-> keyTimes]

\* <animate attributeName=... from=... to=... dur=... repeatCount=.../>
FromTo(attributeName, from, to, dur, repeatCount) ==
  Animate(attributeName, from, to, dur, <<"0", "s">>, repeatCount, "freeze", Null, Null)

\* <animate attributeName=... values=... keyTimes=... dur=... repeatCount=.../>
Keyframes(attributeName, values, keyTimes, dur, repeatCount) ==
  Animate(attributeName, Null, Null, dur, <<"0", "s">>, repeatCount, "freeze",
          Some(values), Some([i \in 1..Len(keyTimes) |-> parseFloat(keyTimes[i])]))

Track(targetId, animation) == [targetId |-> targetId, animation |-> animation]

\* rotation 0,0,0 -> 0,6.28,0 in 8s, for ever (the quick start's continuous rotation)
Spin == Track("cube", FromTo("rotation", <<"0", "0", "0">>, <<"0", "6.28", "0">>,
                             <<"8", "s">>, "indefinite"))

\* position 1,0,0 -> 3,0,0 in 4s, n times
Slide(n) == Track("cube", FromTo("position", <<"1", "0", "0">>, <<"3", "0", "0">>,
                                 <<"4", "s">>, n))

\* position along 0,0,0; 0,2,0; 0,0,0 at 0; 0.5; 1 in 4s, once
Bounce == Track("cube", Keyframes("position",
                                  << <<"0", "0", "0">>, <<"0", "2", "0">>, <<"0", "0", "0">> >>,
                                  <<"0", "0.5", "1">>, <<"4", "s">>, "1"))

\* scale with a `to` one component short
Lopsided == Track("cube", FromTo("scale", <<"0", "0", "0">>, <<"1", "1">>,
                                 <<"4", "s">>, "1"))

\* scale 1,1,1 -> 2,2,2 in 2s, starting after 2s, fill remove
Late == Track("cube", Animate("scale", <<"1", "1", "1">>, <<"2", "2", "2">>,
                              <<"2", "s">>, <<"2", "s">>, "1", "remove", Null, Null))

\* a track whose attributeName is a path that does not resolve on its node
Broken == Track("cube", FromTo("transform.rotation", <<"0", "0", "0">>, <<"0", "1", "0">>,
                               <<"4", "s">>, "1"))

\* a track of a node that is not in the built scene
Stray == Track("ghost", FromTo("position", <<"0", "0", "0">>, <<"2", "0", "0">>,
                               <<"4", "s">>, "1"))

\* The documents of the model: each the list of its tracks, in document order.
Scenes ==
  { <<Spin>>, <<Slide("1")>>, <<Slide("2")>>, <<Slide("3")>>, <<Bounce>>,
    <<Lopsided>>, <<Late>>, <<Spin, Slide("3")>>, <<Slide("3"), Bounce>>,
    <<Stray, Spin>>, <<Spin, Broken>>, <<Broken, Spin>> }

\* The time steps a caller passes to update: a still frame, two frame lengths,
\* a step backwards and NaN.
Deltas == {Lit(0, 1), Lit(2, 1), Lit(4, 1), Lit(-1, 1), NaN}

\* The number of update calls followed.
MaxUpdates == 4

Updates == SelectSeq(history, LAMBDA h : h.op = "update")

--------------------------------------------------------------------------
\* The engine: construction, setupAnimations' registrations, the frames

\* new AnimationEngine(), and a parsed document whose scene is built
Init ==
  /\ clock = [time |-> Zero, delta |-> Zero]
  /\ activeAnimations = <<>>
  /\ objects = BuiltObjects
  /\ animations \in Scenes
  /\ registered = 0
  /\ history = <<>>
  /\ evals = <<>>
  /\ error = ""
  /\ rotationControllers = <<>>
  /\ event = NoEvent
  /\ pointer = NoPointer
  /\ initial = objects
  /\ calls = <<>>
  /\ cameras = 1
  /\ browser = NoBrowser
  /\ parser = NoParser
  /\ bones = <<>>
  /\ character = NoCharacter
  /\ saved = <<>>

\* setupAnimations' forEach callback on `track`:
\* engine.registerAnimation(track.targetId, track.animation)
RegisterTrack(track) ==
  /\ activeAnimations' =
       registerAnimation(activeAnimations, track.targetId, track.animation)
  /\ history' = Append(history, [op |-> "register",
                                 key |-> AnimKey(track.targetId, track.animation),
                                 delta |-> Zero])

\* The next track of the document is registered.
Register ==
  /\ registered < Len(animations)
  /\ RegisterTrack(animations[registered + 1])
  /\ registered' = registered + 1
  /\ evals' = <<>>
  /\ error' = ""
  /\ UNCHANGED <<clock, objects, animations, controlVars, initial, loopVars, gameVars>>

\* The engine and the nodes once update's forEach is through.
Updated(time, deltaTime, r) ==
  [clock |-> [time |-> time, delta |-> deltaTime],
   activeAnimations |-> r.map, objects |-> r.objs, evals |-> r.evals,
   error |-> IF r.threw THEN "TypeError" ELSE ""]

UpdateAt(time, deltaTime, map, objs) ==
  Updated(time, deltaTime, UpdateFrom(1, map, objs, time, <<>>))

\* AnimationEngine.update: the engine and the nodes after
\* update(deltaTime, objs) on an engine with clock time `time` and registry `map`
update(time, map, deltaTime, objs) ==
  UpdateAt(FAdd(time, deltaTime), deltaTime, map, objs)

\* engine.update(deltaTime, objects)
Update(deltaTime) ==
  /\ Len(Updates) < MaxUpdates
  /\ \E r \in {update(clock.time, activeAnimations, deltaTime, objects)} :
        /\ clock' = r.clock
        /\ activeAnimations' = r.activeAnimations
        /\ objects' = r.objects
        /\ evals' = r.evals
        /\ error' = r.error
  /\ history' = Append(history, [op |-> "update", key |-> "", delta |-> deltaTime])
  /\ UNCHANGED <<animations, registered, controlVars, initial, loopVars, gameVars>>

Next ==
  \/ Register
  \/ \E deltaTime \in Deltas : Update(deltaTime)

Spec == Init /\ [][Next]_vars

--------------------------------------------------------------------------
\* The interpolation functions on their own: one registered track, and
\* applySimpleAnimation / applyKeyframeAnimation applied to its node at a
\* progress of the caller's choice, as update's dispatch does.

\* The texts of the vector components tried.
ValueTexts == {"0", "3", "0.1", "-0.9"}

\* The keyframe vectors tried.
KeyVectors == { <<"0", "0", "0">>, <<"0", "2", "0">>, <<"3", "0.1", "-0.9">> }

\* The keyTimes lists tried: non-decreasing from 0 to 1.
KeyTimeLists == { <<"0", "1">>, <<"0", "0.5", "1">>, <<"0", "0.5", "0.5", "1">> }

SimpleTracks ==
  { Track("cube", FromTo("position", <<a, b, "0">>, <<c, d, "2">>, <<"3", "s">>, "1")) :
      a \in ValueTexts, b \in ValueTexts, c \in ValueTexts, d \in ValueTexts }

KeyframeTracks ==
  UNION { { Track("cube", Keyframes("position", vs, kt, <<"3", "s">>, "1")) :
              vs \in [1..Len(kt) -> KeyVectors] } : kt \in KeyTimeLists }

\* The progress values tried are the multiples of 1/ProgressSteps in [0, 1].
ProgressSteps == 4

ProgressValues == { Lit(k, ProgressSteps) : k \in 0..ProgressSteps }

\* The number of applications followed.
MaxApplications == 2

InitInterp ==
  /\ clock = [time |-> Zero, delta |-> Zero]
  /\ animations \in { <<t>> : t \in SimpleTracks \cup KeyframeTracks }
  /\ activeAnimations =
       registerAnimation(<<>>, animations[1].targetId, animations[1].animation)
  /\ registered = 1
  /\ objects = BuiltObjects
  /\ history = <<>>
  /\ evals = <<>>
  /\ error = ""
  /\ rotationControllers = <<>>
  /\ event = NoEvent
  /\ pointer = NoPointer
  /\ initial = objects
  /\ calls = <<>>
  /\ cameras = 1
  /\ browser = NoBrowser
  /\ parser = NoParser
  /\ bones = <<>>
  /\ character = NoCharacter
  /\ saved = <<>>

\* The node registry after update's dispatch applied entry `e` at `progress`.
Applied(e, objs, progress) ==
  [objs EXCEPT ![e.anim.targetId] =
     IF IsKeyframe(e.anim)
     THEN applyKeyframeAnimation(objs[e.anim.targetId], e.anim, progress)
     ELSE applySimpleAnimation(objs[e.anim.targetId], e.anim, progress)]

Apply(op, progress) ==
  /\ Len(history) < MaxApplications
  /\ objects' = Applied(activeAnimations[1], objects, progress)
  /\ evals' = <<[key |-> activeAnimations[1].key, mode |-> op, progress |-> progress]>>
  /\ history' = Append(history, [op |-> op, key |-> activeAnimations[1].key,
                                 delta |-> Zero])
  /\ UNCHANGED <<clock, activeAnimations, animations, registered, error,
                 controlVars, initial, loopVars, gameVars>>

\* this.applySimpleAnimation(obj, anim, progress)
ApplySimple(progress) ==
  /\ ~IsKeyframe(activeAnimations[1].anim)
  /\ Apply("simple", progress)

\* this.applyKeyframeAnimation(obj, anim, progress)
ApplyKeyframe(progress) ==
  /\ IsKeyframe(activeAnimations[1].anim)
  /\ Apply("keyframe", progress)

NextInterp ==
  \/ \E progress \in ProgressValues : ApplySimple(progress)
  \/ \E progress \in ProgressValues : ApplyKeyframe(progress)

SpecInterp == InitInterp /\ [][NextInterp]_vars

--------------------------------------------------------------------------
\* RotationController: the drag handlers, applyRotation, reset, on the mesh
\* setupRotationControl has handed to it.

\* The client positions (clientX, clientY) of the pointer events.
Points == {<<1, 2>>, <<4, 2>>, <<2, 6>>}

\* The touch lists of the touch events: one finger, or two.
TouchLists == {<<p>> : p \in Points} \cup {<< <<1, 2>>, <<4, 2>> >>}

\* The sensitivities a controller is created with: the constructor's default
\* 0.01, and the 0.015 of the API reference.
Sensitivities == {Lit(1, 100), Lit(15, 1000)}

\* The rotation attribute of the mesh in the document: none, or 0,0.5,0.
MeshRotations == {<<Zero, Zero, Zero>>, <<Zero, Lit(1, 2), Zero>>}

\* The number of canvas events and controller calls followed.
MaxEvents == 4

\* { x: event.clientX, y: event.clientY }
ClientPoint(p) == [x |-> Lit(p[1], 1), y |-> Lit(p[2], 1)]

\* The fields the RotationController constructor sets.
NewController(sensitivity) ==
  [sensitivity |-> sensitivity,
   isDragging |-> FALSE,
   previousMousePosition |-> [x |-> Zero, y |-> Zero],
   rotation |-> [x |-> Zero, y |-> Zero, z |-> Zero]]

\* array[i] = v on an array whose indices below i are filled (i counted from 0)
ArrayPut(array, i, v) ==
  IF i + 1 \in 1..Len(array) THEN [array EXCEPT ![i + 1] = v] ELSE Append(array, v)

\* applyRotation writing the y component only
applyRotationY(targetObject, rotation) ==
  [targetObject EXCEPT !.rotation[2] = rotation.y]

\* RotationController.applyRotation: the target after it
applyRotation(targetObject, rotation) ==
  IF targetObject.rotationKind = "Array"
  THEN [targetObject EXCEPT
          !.rotation = ArrayPut(ArrayPut(ArrayPut(@, 0, rotation.x), 1, rotation.y),
                                2, rotation.z)]
  ELSE [targetObject EXCEPT !.rotation = <<rotation.x, rotation.y, rotation.z>>]

\* onMouseDown, and onTouchStart with one touch
onMouseDown(c, p) ==
  [c EXCEPT !.isDragging = TRUE, !.previousMousePosition = ClientPoint(p)]

\* this.rotation after `this.rotation.y += deltaX * this.sensitivity;
\* this.rotation.x += deltaY * this.sensitivity`, the pointer now at p
Turned(c, p) ==
  [c.rotation EXCEPT
     !.y = FAdd(@, FMul(FSub(ClientPoint(p).x, c.previousMousePosition.x), c.sensitivity)),
     !.x = FAdd(@, FMul(FSub(ClientPoint(p).y, c.previousMousePosition.y), c.sensitivity))]

\* The controller and its target after a move that is taken as a drag sample.
Dragged(c, targetObject, p) ==
  [controller |-> [c EXCEPT !.rotation = Turned(c, p),
                            !.previousMousePosition = ClientPoint(p)],
   target |-> applyRotation(targetObject, Turned(c, p))]

\* onMouseMove without `if (!this.isDragging) return`
onMouseMoveUnguarded(c, targetObject, p) == Dragged(c, targetObject, p)

\* RotationController.onMouseMove
onMouseMove(c, targetObject, p) ==
  IF ~c.isDragging THEN [controller |-> c, target |-> targetObject]
  ELSE Dragged(c, targetObject, p)

\* RotationController.onMouseUp, onTouchEnd
onMouseUp(c) == [c EXCEPT !.isDragging = FALSE]

\* RotationController.onTouchStart
onTouchStart(c, touches) ==
  IF Len(touches) = 1 THEN onMouseDown(c, touches[1]) ELSE c

\* RotationController.onTouchMove
onTouchMove(c, targetObject, touches) ==
  IF ~c.isDragging \/ Len(touches) # 1 THEN [controller |-> c, target |-> targetObject]
  ELSE Dragged(c, targetObject, touches[1])

\* reset without its applyRotation call
resetOrientation(c, targetObject) ==
  [controller |-> [c EXCEPT !.rotation = [x |-> Zero, y |-> Zero, z |-> Zero]],
   target |-> targetObject]

\* RotationController.reset
reset(c, targetObject) ==
  [controller |-> [c EXCEPT !.rotation = [x |-> Zero, y |-> Zero, z |-> Zero]],
   target |-> applyRotation(targetObject, [x |-> Zero, y |-> Zero, z |-> Zero])]

\* The one controller of the scene, and the mesh it turns.
Controller == rotationControllers[1].controller
TargetId == rotationControllers[1].objectId
Target == objects[TargetId]

\* What the user did, told from the events alone: a press begins a drag, a
\* release ends it, a move of the one pressed pointer is a sample whose delta
\* is taken from the position of the press or sample before it.
Pressed(ptr, p) == [ptr EXCEPT !.pressed = TRUE, !.at = p]
Released(ptr) == [ptr EXCEPT !.pressed = FALSE]
Sampled(ptr, p) ==
  IF ~ptr.pressed THEN ptr
  ELSE [ptr EXCEPT !.at = p,
                   !.samples = Append(@, <<p[1] - ptr.at[1], p[2] - ptr.at[2]>>),
                   !.dragged = @ + 1]

\* The canvas dispatches an event of `type` at `at` to its listener.
Handle(type, at) ==
  /\ event.n < MaxEvents
  /\ event' = [n |-> event.n + 1, type |-> type, at |-> at]

\* The controller and its target become those of r.
Become(r) ==
  /\ rotationControllers' = [rotationControllers EXCEPT ![1].controller = r.controller]
  /\ objects' = [objects EXCEPT ![TargetId] = r.target]

\* new SVG3ThreeRenderer(sceneData, canvas).init() on a document without
\* animations, then setupRotationControl('cube', sensitivity). The mesh's
\* rotation is the document's; it is an array where an array was assigned to
\* it before.
InitControl ==
  /\ clock = [time |-> Zero, delta |-> Zero]
  /\ activeAnimations = <<>>
  /\ animations = <<>>
  /\ registered = 0
  /\ history = <<>>
  /\ evals = <<>>
  /\ error = ""
  /\ objects \in { [id \in {"cube"} |-> [NewNode EXCEPT !.rotation = r, !.rotationKind = k]] :
                    r \in MeshRotations, k \in {"Euler", "Array"} }
  /\ rotationControllers \in
       { <<[objectId |-> "cube", controller |-> NewController(sensitivity)]>> :
           sensitivity \in Sensitivities }
  /\ event = NoEvent
  /\ pointer = NoPointer
  /\ initial = objects
  /\ calls = <<>>
  /\ cameras = 1
  /\ browser = NoBrowser
  /\ parser = NoParser
  /\ bones = <<>>
  /\ character = NoCharacter
  /\ saved = <<>>

\* canvas 'mousedown'
MouseDown(p) ==
  /\ Handle("mousedown", <<p>>)
  /\ rotationControllers' =
       [rotationControllers EXCEPT ![1].controller = onMouseDown(@, p)]
  /\ pointer' = Pressed(pointer, p)
  /\ UNCHANGED <<objects, engineVars, history, initial, loopVars, gameVars>>

\* canvas 'mousemove'
MouseMove(p) ==
  /\ Handle("mousemove", <<p>>)
  /\ Become(onMouseMove(Controller, Target, p))
  /\ pointer' = Sampled(pointer, p)
  /\ UNCHANGED <<engineVars, history, initial, loopVars, gameVars>>

\* canvas 'mouseup' and 'mouseleave', both bound to onMouseUp
MouseUp(type) ==
  /\ Handle(type, <<>>)
  /\ rotationControllers' = [rotationControllers EXCEPT ![1].controller = onMouseUp(@)]
  /\ pointer' = Released(pointer)
  /\ UNCHANGED <<objects, engineVars, history, initial, loopVars, gameVars>>

\* canvas 'touchstart'
TouchStart(touches) ==
  /\ Handle("touchstart", touches)
  /\ rotationControllers' =
       [rotationControllers EXCEPT ![1].controller = onTouchStart(@, touches)]
  /\ pointer' = IF Len(touches) = 1 THEN Pressed(pointer, touches[1]) ELSE pointer
  /\ UNCHANGED <<objects, engineVars, history, initial, loopVars, gameVars>>

\* canvas 'touchmove'
TouchMove(touches) ==
  /\ Handle("touchmove", touches)
  /\ Become(onTouchMove(Controller, Target, touches))
  /\ pointer' = IF Len(touches) = 1 THEN Sampled(pointer, touches[1]) ELSE pointer
  /\ UNCHANGED <<engineVars, history, initial, loopVars, gameVars>>

\* canvas 'touchend'
TouchEnd ==
  /\ Handle("touchend", <<>>)
  /\ rotationControllers' = [rotationControllers EXCEPT ![1].controller = onMouseUp(@)]
  /\ pointer' = Released(pointer)
  /\ UNCHANGED <<objects, engineVars, history, initial, loopVars, gameVars>>

\* controller.reset()
Reset ==
  /\ Handle("reset", <<>>)
  /\ Become(reset(Controller, Target))
  /\ pointer' = [pointer EXCEPT !.samples = <<>>]
  /\ UNCHANGED <<engineVars, history, initial, loopVars, gameVars>>

NextControl ==
  \/ \E p \in Points : MouseDown(p)
  \/ \E p \in Points : MouseMove(p)
  \/ \E type \in {"mouseup", "mouseleave"} : MouseUp(type)
  \/ \E touches \in TouchLists : TouchStart(touches)
  \/ \E touches \in TouchLists : TouchMove(touches)
  \/ TouchEnd
  \/ Reset

SpecControl == InitControl /\ [][NextControl]_vars

--------------------------------------------------------------------------
\* The render loop: SVG3ThreeRenderer.animate on a built scene whose mesh is
\* also turned by a rotation controller.

\* The time step animate hands to update: the literal 0.016
FrameDelta == Lit(16, 1000)

\* The documents of the loop: a rotation track, alone and behind a track whose
\* path does not resolve.
LoopScenes == { <<Spin>>, <<Broken, Spin>> }

\* The positions of the pointer events in the loop.
LoopPoints == {<<1, 2>>, <<4, 6>>}

\* setupAnimations: the registry after the forEach over the first n tracks
RECURSIVE setupAnimations(_, _)
setupAnimations(tracks, n) ==
  IF n = 0 THEN <<>>
  ELSE registerAnimation(setupAnimations(tracks, n - 1),
                         tracks[n].targetId, tracks[n].animation)

\* One call made by animate.
Call(name, delta) == [name |-> name, delta |-> delta]

\* render before update: the calls of animate with its last two statements
\* in the other order
animateDrawFirst(time, map, objs, cams) ==
  [engine |-> update(time, map, FrameDelta, objs),
   calls |-> <<Call("requestAnimationFrame", Zero)>>
             \o (IF cams > 0 THEN <<Call("render", Zero)>> ELSE <<>>)
             \o <<Call("update", FrameDelta)>>]

\* SVG3ThreeRenderer.animate: the engine and the nodes after the frame and the
\* calls made in it. An exception of update leaves animate before the render.
animateCalls(r, cams) ==
  [engine |-> r,
   calls |-> <<Call("requestAnimationFrame", Zero), Call("update", FrameDelta)>>
             \o (IF r.error = "" /\ cams > 0 THEN <<Call("render", Zero)>> ELSE <<>>)]

animate(time, map, objs, cams) ==
  animateCalls(update(time, map, FrameDelta, objs), cams)

\* init() on a document of LoopScenes with or without a camera, then
\* setupRotationControl('cube').
InitLoop ==
  /\ clock = [time |-> Zero, delta |-> Zero]
  /\ animations \in LoopScenes
  /\ activeAnimations = setupAnimations(animations, Len(animations))
  /\ registered = Len(animations)
  /\ history = [i \in 1..Len(animations) |->
                  [op |-> "register",
                   key |-> AnimKey(animations[i].targetId, animations[i].animation),
                   delta |-> Zero]]
  /\ evals = <<>>
  /\ error = ""
  /\ objects \in { [id \in {"cube"} |-> [NewNode EXCEPT !.rotation = r]] :
                    r \in MeshRotations }
  /\ rotationControllers =
       <<[objectId |-> "cube", controller |-> NewController(Lit(1, 100))]>>
  /\ event = NoEvent
  /\ pointer = NoPointer
  /\ initial = objects
  /\ calls = <<>>
  /\ cameras \in {0, 1}
  /\ browser = NoBrowser
  /\ parser = NoParser
  /\ bones = <<>>
  /\ character = NoCharacter
  /\ saved = <<>>

\* One frame: the browser runs the callback animate has scheduled.
Frame ==
  /\ Len(Updates) < MaxUpdates
  /\ \E r \in {animate(clock.time, activeAnimations, objects, cameras)} :
        /\ clock' = r.engine.clock
        /\ activeAnimations' = r.engine.activeAnimations
        /\ objects' = r.engine.objects
        /\ evals' = r.engine.evals
        /\ error' = r.engine.error
        /\ calls' = r.calls
  /\ history' = Append(history, [op |-> "update", key |-> "", delta |-> FrameDelta])
  /\ UNCHANGED <<animations, registered, controlVars, initial, cameras, browser, parser, gameVars>>

NextLoop ==
  \/ Frame
  \/ \E p \in LoopPoints : MouseDown(p)
  \/ \E p \in LoopPoints : MouseMove(p)
  \/ MouseUp("mouseup")
  \/ Reset

SpecLoop == InitLoop /\ [][NextLoop]_vars

--------------------------------------------------------------------------
\* SVG3GameController: the skeleton over the renderer's meshes

\* The transforms of the mesh in the document: the defaults, a mesh that is
\* placed and turned, a mesh of double height.
BoneMeshes ==
  { NewNode,
    [NewNode EXCEPT !.position = <<One, Zero, Zero>>,
                    !.rotation = <<Zero, Lit(1, 2), Zero>>],
    [NewNode EXCEPT !.scale = <<One, Lit(2, 1), One>>] }

\* The bone definitions handed to setupBones: the mesh of the scene, and a
\* bone whose mesh the scene does not have.
BoneDefinitions ==
  << [id |-> "cube", parent |-> Null], [id |-> "tail", parent |-> Some("cube")] >>

\* The vectors handed to rotateBone, moveBone and scaleBone.
BoneVectors == { <<Zero, Lit(1, 2), Zero>>, <<One, One, Lit(2, 1)>> }

\* this.bones.get(boneId): the entry's place in the Map, 0 when there is none
BoneIndex(bs, boneId) ==
  IF \E i \in 1..Len(bs) : bs[i].id = boneId
  THEN CHOOSE i \in 1..Len(bs) : bs[i].id = boneId
  ELSE 0

\* The bone setupBones stores for a definition whose mesh exists.
NewBone(boneDef, mesh) ==
  [id |-> boneDef.id,
   mesh |-> boneDef.id,
   parent |-> boneDef.parent,
   children |-> <<>>,
   originalPosition |-> mesh.position,
   originalRotation |-> [x |-> mesh.rotation[1], y |-> mesh.rotation[2],
                         z |-> mesh.rotation[3]]]

\* this.bones.set(boneDef.id, bone)
BoneSet(bs, bone) ==
  IF BoneIndex(bs, bone.id) # 0
  THEN [bs EXCEPT ![BoneIndex(bs, bone.id)] = [id |-> bone.id, bone |-> bone]]
  ELSE Append(bs, [id |-> bone.id, bone |-> bone])

\* setupBones' first forEach, over the first n definitions
RECURSIVE StoreBones(_, _, _, _)
StoreBones(bs, meshes, boneDefinitions, n) ==
  IF n = 0 THEN bs
  ELSE IF boneDefinitions[n].id \notin DOMAIN meshes
       THEN StoreBones(bs, meshes, boneDefinitions, n - 1)
       ELSE BoneSet(StoreBones(bs, meshes, boneDefinitions, n - 1),
                    NewBone(boneDefinitions[n], meshes[boneDefinitions[n].id]))

\* setupBones' second forEach: every bone is pushed to its parent's children
ChildrenOf(bs, id) ==
  [k \in 1..Len(SelectSeq(bs, LAMBDA e : e.bone.parent = Some(id))) |->
     SelectSeq(bs, LAMBDA e : e.bone.parent = Some(id))[k].id]

BuildHierarchy(bs) ==
  [i \in 1..Len(bs) |->
     [bs[i] EXCEPT !.bone.children = bs[i].bone.children \o ChildrenOf(bs, bs[i].id)]]

\* SVG3GameController.setupBones
setupBones(bs, meshes, boneDefinitions) ==
  BuildHierarchy(StoreBones(bs, meshes, boneDefinitions, Len(boneDefinitions)))

\* Shifted without the relative form: the vector is set whatever `absolute` is.
ShiftedSet(current, v, absolute) == v

\* vector.set(...v) for absolute, component-wise += for relative
Shifted(current, v, absolute) ==
  IF absolute THEN v ELSE [i \in 1..3 |-> FAdd(current[i], v[i])]

\* vector.set(...v) for absolute, component-wise *= for relative
Scaled(current, v, absolute) ==
  IF absolute THEN v ELSE [i \in 1..3 |-> FMul(current[i], v[i])]

\* SVG3GameController.rotateBone: the meshes after it
rotateBone(bs, meshes, boneId, rotation, absolute) ==
  IF BoneIndex(bs, boneId) = 0 THEN meshes
  ELSE [meshes EXCEPT ![boneId].rotation = Shifted(@, rotation, absolute)]

\* SVG3GameController.moveBone
moveBone(bs, meshes, boneId, position, absolute) ==
  IF BoneIndex(bs, boneId) = 0 THEN meshes
  ELSE [meshes EXCEPT ![boneId].position = Shifted(@, position, absolute)]

\* SVG3GameController.scaleBone
scaleBone(bs, meshes, boneId, scale, absolute) ==
  IF BoneIndex(bs, boneId) = 0 THEN meshes
  ELSE [meshes EXCEPT ![boneId].scale = Scaled(@, scale, absolute)]

\* The mesh of a bone after resetBone.
ResetMesh(mesh, bone) ==
  [mesh EXCEPT !.position = bone.originalPosition,
               !.rotation = <<bone.originalRotation.x, bone.originalRotation.y,
                              bone.originalRotation.z>>,
               !.scale = <<One, One, One>>]

\* SVG3GameController.resetBone (PuppetControl.reset calls it with its boneId)
resetBone(bs, meshes, boneId) ==
  IF BoneIndex(bs, boneId) = 0 THEN meshes
  ELSE [meshes EXCEPT ![boneId] = ResetMesh(@, bs[BoneIndex(bs, boneId)].bone)]

\* The bone ids the calls name: the bone of the scene, and one that is not set up.
BoneIds == {"cube", "tail"}

\* new SVG3GameController(renderer) on a built scene without animations
InitBones ==
  /\ clock = [time |-> Zero, delta |-> Zero]
  /\ activeAnimations = <<>>
  /\ animations = <<>>
  /\ registered = 0
  /\ history = <<>>
  /\ evals = <<>>
  /\ error = ""
  /\ objects \in { [id \in {"cube"} |-> mesh] : mesh \in BoneMeshes }
  /\ rotationControllers = <<>>
  /\ event = NoEvent
  /\ pointer = NoPointer
  /\ initial = objects
  /\ calls = <<>>
  /\ cameras = 1
  /\ browser = NoBrowser
  /\ parser = NoParser
  /\ bones = <<>>
  /\ character = NoCharacter
  /\ saved = <<>>

\* gameController.setupBones(boneDefinitions), once, before the skeleton is used
SetupBones ==
  /\ bones = <<>>
  /\ Handle("setupBones", <<>>)
  /\ bones' = setupBones(bones, objects, BoneDefinitions)
  /\ initial' = objects
  /\ UNCHANGED <<objects, engineVars, history, rotationControllers, pointer, loopVars,
                 character, saved>>

\* gameController.rotateBone(boneId, rotation, absolute)
RotateBone(boneId, rotation, absolute) ==
  /\ Handle("rotateBone", <<>>)
  /\ objects' = rotateBone(bones, objects, boneId, rotation, absolute)
  /\ UNCHANGED <<engineVars, history, rotationControllers, pointer, initial, loopVars, bones, character, saved>>

\* gameController.moveBone(boneId, position, absolute)
MoveBone(boneId, position, absolute) ==
  /\ Handle("moveBone", <<>>)
  /\ objects' = moveBone(bones, objects, boneId, position, absolute)
  /\ UNCHANGED <<engineVars, history, rotationControllers, pointer, initial, loopVars, bones, character, saved>>

\* gameController.scaleBone(boneId, scale, absolute)
ScaleBone(boneId, scale, absolute) ==
  /\ Handle("scaleBone", <<>>)
  /\ objects' = scaleBone(bones, objects, boneId, scale, absolute)
  /\ UNCHANGED <<engineVars, history, rotationControllers, pointer, initial, loopVars, bones, character, saved>>

\* gameController.resetBone(boneId), puppet.reset()
ResetBone(boneId) ==
  /\ Handle("resetBone", <<>>)
  /\ objects' = resetBone(bones, objects, boneId)
  /\ UNCHANGED <<engineVars, history, rotationControllers, pointer, initial, loopVars, bones, character, saved>>

NextBones ==
  \/ SetupBones
  \/ \E boneId \in BoneIds, v \in BoneVectors, absolute \in BOOLEAN :
       RotateBone(boneId, v, absolute)
  \/ \E boneId \in BoneIds, v \in BoneVectors, absolute \in BOOLEAN :
       MoveBone(boneId, v, absolute)
  \/ \E boneId \in BoneIds, v \in BoneVectors, absolute \in BOOLEAN :
       ScaleBone(boneId, v, absolute)
  \/ \E boneId \in BoneIds : ResetBone(boneId)

SpecBones == InitBones /\ [][NextBones]_vars

--------------------------------------------------------------------------
\* GameCharacter: puppets over the skeleton, saving and restoring its state

\* The skeleton of the character example: a torso, an arm on it, a hand on the arm.
CharacterBones ==
  << [id |-> "torso", parent |-> Null],
     [id |-> "left-arm", parent |-> Some("torso")],
     [id |-> "left-hand", parent |-> Some("left-arm")] >>

\* new PuppetControl(gameController, boneId): the bone is looked up by its id at
\* every call
NewPuppet(boneId) == [boneId |-> boneId]

\* new GameCharacter(name, gameController, boneDefinitions), after its
\* setupBones: a puppet for every definition, whether its mesh exists or not
NewCharacter(boneDefinitions) ==
  [puppets |-> [i \in 1..Len(boneDefinitions) |->
                  [id |-> boneDefinitions[i].id,
                   puppet |-> NewPuppet(boneDefinitions[i].id)]],
   stateMachine |-> NoMachine,
   ikSolvers |-> <<>>]

\* this.puppets.get(id) is defined
HasPuppet(puppets, id) == \E i \in 1..Len(puppets) : puppets[i].id = id

\* PuppetControl.move, rotate, scale: the absolute form of the controller's calls
move(bs, meshes, boneId, v) == moveBone(bs, meshes, boneId, v, TRUE)
rotate(bs, meshes, boneId, v) == rotateBone(bs, meshes, boneId, v, TRUE)
scale(bs, meshes, boneId, v) == scaleBone(bs, meshes, boneId, v, TRUE)

\* PuppetControl.moveX: the relative form
moveX(bs, meshes, boneId, distance) ==
  moveBone(bs, meshes, boneId, <<distance, Zero, Zero>>, FALSE)

\* SVG3GameController.getAllBones: fresh arrays of every bone's transform (the
\* meshes of a skeleton hold their rotation as x, y, z)
getAllBones(bs, meshes) ==
  [i \in 1..Len(bs) |->
     [id |-> bs[i].id,
      position |-> meshes[bs[i].bone.mesh].position,
      rotation |-> <<meshes[bs[i].bone.mesh].rotation[1],
                     meshes[bs[i].bone.mesh].rotation[2],
                     meshes[bs[i].bone.mesh].rotation[3]>>,
      scale |-> meshes[bs[i].bone.mesh].scale]]

\* GameCharacter.getState
getState(bs, meshes) == getAllBones(bs, meshes)

\* The body of setState's forEach with relative moves in place of absolute ones.
SetBoneStateRelative(bs, meshes, puppets, state) ==
  IF ~HasPuppet(puppets, state.id) THEN meshes
  ELSE scale(bs, rotate(bs, moveBone(bs, meshes, state.id, state.position, FALSE),
                        state.id, state.rotation),
             state.id, state.scale)

\* The body of setState's forEach: the puppet of the state's bone is moved,
\* rotated and scaled to the state.
SetBoneState(bs, meshes, puppets, state) ==
  IF ~HasPuppet(puppets, state.id) THEN meshes
  ELSE scale(bs, rotate(bs, move(bs, meshes, state.id, state.position),
                        state.id, state.rotation),
             state.id, state.scale)

\* GameCharacter.setState, over the first n bone states
RECURSIVE setState(_, _, _, _, _)
setState(bs, meshes, puppets, boneStates, n) ==
  IF n = 0 THEN meshes
  ELSE SetBoneState(bs, setState(bs, meshes, puppets, boneStates, n - 1), puppets,
                    boneStates[n])

\* The meshes of the character's scene: the torso and the arm, the hand is not
\* in the document.
CharacterMeshes == { NewNode, [NewNode EXCEPT !.position = <<One, Zero, Zero>>,
                                              !.scale = <<One, Lit(2, 1), One>>] }

\* The bones the puppet calls name, and the vectors they pass.
PuppetIds == {"torso", "left-arm", "left-hand"}
PuppetVectors == { <<Zero, Lit(1, 2), Zero>>, <<One, One, Lit(2, 1)>> }

\* new GameCharacter('Player', gameController, characterBones) on the built scene
InitCharacter ==
  /\ clock = [time |-> Zero, delta |-> Zero]
  /\ activeAnimations = <<>>
  /\ animations = <<>>
  /\ registered = 0
  /\ history = <<>>
  /\ evals = <<>>
  /\ error = ""
  /\ objects \in { [id \in {"torso", "left-arm"} |->
                      IF id = "torso" THEN NewNode ELSE mesh] : mesh \in CharacterMeshes }
  /\ rotationControllers = <<>>
  /\ event = NoEvent
  /\ pointer = NoPointer
  /\ initial = objects
  /\ calls = <<>>
  /\ cameras = 1
  /\ browser = NoBrowser
  /\ parser = NoParser
  /\ bones = setupBones(<<>>, objects, CharacterBones)
  /\ character = NewCharacter(CharacterBones)
  /\ saved = <<>>

\* character.getPuppet(boneId).move(x, y, z); the event keeps the number of
\* calls the engine has had before it
Move(boneId, v) ==
  /\ Handle("move", <<Len(history)>>)
  /\ objects' = move(bones, objects, boneId, v)
  /\ UNCHANGED <<engineVars, history, rotationControllers, pointer, initial, loopVars,
                 gameVars>>

\* character.getPuppet(boneId).moveX(distance)
MoveX(boneId, distance) ==
  /\ Handle("moveX", <<>>)
  /\ objects' = moveX(bones, objects, boneId, distance)
  /\ UNCHANGED <<engineVars, history, rotationControllers, pointer, initial, loopVars,
                 gameVars>>

\* character.getPuppet(boneId).rotate(x, y, z)
Rotate(boneId, v) ==
  /\ Handle("rotate", <<>>)
  /\ objects' = rotate(bones, objects, boneId, v)
  /\ UNCHANGED <<engineVars, history, rotationControllers, pointer, initial, loopVars,
                 gameVars>>

\* character.getPuppet(boneId).scale(x, y, z)
Scale(boneId, v) ==
  /\ Handle("scale", <<>>)
  /\ objects' = scale(bones, objects, boneId, v)
  /\ UNCHANGED <<engineVars, history, rotationControllers, pointer, initial, loopVars,
                 gameVars>>

\* const s = character.getState()
GetState ==
  /\ Handle("getState", <<>>)
  /\ saved' = getState(bones, objects)
  /\ UNCHANGED <<objects, engineVars, history, rotationControllers, pointer, initial,
                 loopVars, bones, character>>

\* character.setState(s); the event keeps the bone states the call found
SetState ==
  /\ saved # <<>>
  /\ Handle("setState", getAllBones(bones, objects))
  /\ objects' = setState(bones, objects, character.puppets, saved, Len(saved))
  /\ UNCHANGED <<engineVars, history, rotationControllers, pointer, initial, loopVars,
                 gameVars>>

NextCharacter ==
  \/ \E boneId \in PuppetIds, v \in PuppetVectors : Move(boneId, v)
  \/ \E boneId \in PuppetIds : MoveX(boneId, One)
  \/ \E boneId \in PuppetIds, v \in PuppetVectors : Rotate(boneId, v)
  \/ \E boneId \in PuppetIds, v \in PuppetVectors : Scale(boneId, v)
  \/ GetState
  \/ SetState

SpecCharacter == InitCharacter /\ [][NextCharacter]_vars

--------------------------------------------------------------------------
\* Several characters on one SVG3GameController: every new GameCharacter calls
\* setupBones on the controller's one bones Map.

\* The bone definitions of a second character.
EnemyBones == << [id |-> "cube", parent |-> Null] >>

\* The scene: the meshes of both characters (the player's hand has none).
InitSkeleton ==
  /\ clock = [time |-> Zero, delta |-> Zero]
  /\ activeAnimations = <<>>
  /\ animations = <<>>
  /\ registered = 0
  /\ history = <<>>
  /\ evals = <<>>
  /\ error = ""
  /\ objects \in { [id \in {"torso", "left-arm", "cube"} |->
                      IF id = "left-arm" THEN mesh ELSE NewNode] : mesh \in CharacterMeshes }
  /\ rotationControllers = <<>>
  /\ event = NoEvent
  /\ pointer = NoPointer
  /\ initial = objects
  /\ calls = <<>>
  /\ cameras = 1
  /\ browser = NoBrowser
  /\ parser = NoParser
  /\ bones = <<>>
  /\ character = NoCharacter
  /\ saved = <<>>

\* new GameCharacter(name, gameController, boneDefinitions); `initial` keeps,
\* for every mesh, what it was when its bone was first set up
NewGameCharacter(boneDefinitions) ==
  /\ Handle("GameCharacter", <<>>)
  /\ bones' = setupBones(bones, objects, boneDefinitions)
  /\ character' = NewCharacter(boneDefinitions)
  /\ initial' = [id \in DOMAIN objects |->
                   IF BoneIndex(bones, id) = 0 THEN objects[id] ELSE initial[id]]
  /\ UNCHANGED <<objects, engineVars, history, rotationControllers, pointer, loopVars,
                 saved>>

NextSkeleton ==
  \/ \E boneDefinitions \in {CharacterBones, EnemyBones} : NewGameCharacter(boneDefinitions)
  \/ \E boneId \in {"torso", "left-arm"}, v \in PuppetVectors : Move(boneId, v)
  \/ \E boneId \in {"torso", "left-arm"}, v \in PuppetVectors : Rotate(boneId, v)

SpecSkeleton == InitSkeleton /\ [][NextSkeleton]_vars

--------------------------------------------------------------------------
\* animateBone and GameCharacter.jump: animations that run in the browser's
\* animation frames, started at once and by a timeout

\* A callback the browser holds: a requested frame of animateBone's `animate`
\* closure (at = its startTime), or jump's timeout (at = the time it is due).
Callback(kind, boneId, property, from, to, duration, at) ==
  [kind |-> kind, boneId |-> boneId, property |-> property, from |-> from, to |-> to,
   duration |-> duration, at |-> at]

\* animateBone's closure: elapsed and progress at the time `now`
AnimateProgress(cb, now) ==
  FMin(FDiv(FDiv(Lit(now - cb.at, 1), Lit(1000, 1)), cb.duration), One)

\* from.map((f, i) => f + (to[i] - f) * progress)
Interpolated(cb, progress) ==
  [i \in 1..Len(cb.from) |-> FAdd(cb.from[i], FMul(FSub(cb.to[i], cb.from[i]), progress))]

\* One run of the closure: the mesh's property is set to the interpolated
\* vector, and another frame is requested while progress < 1.
AnimateRun(meshes, callbacks, cb, now) ==
  [objects |-> [meshes EXCEPT ![cb.boneId][cb.property] =
                                 Interpolated(cb, AnimateProgress(cb, now))],
   callbacks |-> IF FLt(AnimateProgress(cb, now), One)
                 THEN Append(callbacks, cb) ELSE callbacks]

\* SVG3GameController.animateBone (PuppetControl.animate): the closure is run
\* once at once, with startTime = Date.now()
animateBone(bs, meshes, callbacks, now, boneId, property, from, to, duration) ==
  IF BoneIndex(bs, boneId) = 0 THEN [objects |-> meshes, callbacks |-> callbacks]
  ELSE AnimateRun(meshes, callbacks,
                  Callback("frame", boneId, property, from, to, duration, now), now)

\* (duration / 2) * 1000, the delay of jump's timeout in ms
HalfMs(duration) == (duration[1] * 1000) \div (duration[2] * 2)

\* The way down of a jump, as the timeout's callback starts it.
JumpDown(height, duration, due) ==
  Callback("timeout", "torso", "position", <<Zero, height, Zero>>, <<Zero, Zero, Zero>>,
           FDiv(duration, Lit(2, 1)), due)

\* GameCharacter.jump: the way up is started at once, the way down by a
\* timeout after half the duration
jump(ch, bs, meshes, br, height, duration) ==
  IF ~HasPuppet(ch.puppets, "torso") THEN [objects |-> meshes, callbacks |-> br.callbacks]
  ELSE animateBone(bs, meshes,
                   Append(br.callbacks, JumpDown(height, duration, br.now + HalfMs(duration))),
                   br.now, "torso", "position", <<Zero, Zero, Zero>>,
                   <<Zero, height, Zero>>, FDiv(duration, Lit(2, 1)))

\* An animation frame: the browser runs the frame callbacks it holds, in the
\* order they were requested; what they request is for the next frame.
RECURSIVE RunFrames(_, _, _, _, _)
RunFrames(meshes, kept, callbacks, i, now) ==
  IF i > Len(callbacks) THEN [objects |-> meshes, callbacks |-> kept]
  ELSE IF callbacks[i].kind # "frame"
       THEN RunFrames(meshes, Append(kept, callbacks[i]), callbacks, i + 1, now)
       ELSE RunFrames(AnimateRun(meshes, kept, callbacks[i], now).objects,
                      AnimateRun(meshes, kept, callbacks[i], now).callbacks,
                      callbacks, i + 1, now)

\* The timeouts that are due.
DueTimeouts(br) ==
  { i \in 1..Len(br.callbacks) :
      br.callbacks[i].kind = "timeout" /\ br.callbacks[i].at <= br.now }

\* The callbacks without the i-th.
Without(callbacks, i) ==
  [k \in 1..(Len(callbacks) - 1) |-> IF k < i THEN callbacks[k] ELSE callbacks[k + 1]]

\* The number of time steps followed, and of jumps whose way down is still to
\* start.
MaxElapses == 4
MaxJumps == 2

\* The heights and durations of the jumps.
JumpArguments == { <<Lit(2, 1), One>> }

\* character.jump(height, duration); the event keeps where the torso was
Jump(height, duration) ==
  /\ Cardinality({ i \in 1..Len(browser.callbacks) : browser.callbacks[i].kind = "timeout" })
       < MaxJumps
  /\ Handle("jump", <<objects["torso"].position>>)
  /\ \E r \in {jump(character, bones, objects, browser, height, duration)} :
       /\ objects' = r.objects
       /\ browser' = [browser EXCEPT !.callbacks = r.callbacks]
  /\ UNCHANGED <<engineVars, history, rotationControllers, pointer, initial, calls,
                 cameras, parser, gameVars>>

\* The browser runs an animation frame.
AnimationFrame ==
  /\ \E i \in 1..Len(browser.callbacks) : browser.callbacks[i].kind = "frame"
  /\ \E r \in {RunFrames(objects, <<>>, browser.callbacks, 1, browser.now)} :
       /\ objects' = r.objects
       /\ browser' = [browser EXCEPT !.callbacks = r.callbacks]
  /\ UNCHANGED <<engineVars, history, controlVars, initial, calls, cameras, parser, gameVars>>

\* The browser runs the callback of a timeout that is due: torso.animate(...)
Timeout ==
  \E i \in DueTimeouts(browser) :
    /\ \E r \in {animateBone(bones, objects, Without(browser.callbacks, i), browser.now,
                             browser.callbacks[i].boneId, browser.callbacks[i].property,
                             browser.callbacks[i].from, browser.callbacks[i].to,
                             browser.callbacks[i].duration)} :
         /\ objects' = r.objects
         /\ browser' = [browser EXCEPT !.callbacks = r.callbacks]
    /\ UNCHANGED <<engineVars, history, controlVars, initial, calls, cameras, parser, gameVars>>

\* Time passes.
Elapse(ms) ==
  /\ browser.now + ms <= MaxElapses * ms
  /\ browser' = [browser EXCEPT !.now = @ + ms]
  /\ UNCHANGED <<objects, engineVars, history, controlVars, initial, calls, cameras,
                 parser, gameVars>>

NextJump ==
  \/ \E a \in JumpArguments : Jump(a[1], a[2])
  \/ \E v \in PuppetVectors : Move("torso", v)
  \/ AnimationFrame
  \/ Timeout
  \/ Elapse(250)

SpecJump == InitCharacter /\ [][NextJump]_vars

--------------------------------------------------------------------------
\* PuppetControl's transform methods, all of them, on the character's skeleton

\* PuppetControl.rotateX, rotateY, rotateZ: the relative form on one axis
rotateX(bs, meshes, boneId, angle) ==
  rotateBone(bs, meshes, boneId, <<angle, Zero, Zero>>, FALSE)
rotateY(bs, meshes, boneId, angle) ==
  rotateBone(bs, meshes, boneId, <<Zero, angle, Zero>>, FALSE)
rotateZ(bs, meshes, boneId, angle) ==
  rotateBone(bs, meshes, boneId, <<Zero, Zero, angle>>, FALSE)

\* PuppetControl.moveY, moveZ
moveY(bs, meshes, boneId, distance) ==
  moveBone(bs, meshes, boneId, <<Zero, distance, Zero>>, FALSE)
moveZ(bs, meshes, boneId, distance) ==
  moveBone(bs, meshes, boneId, <<Zero, Zero, distance>>, FALSE)

\* The vectors the absolute calls pass, and the angles and distances of the
\* relative ones.
PuppetTurns == { <<Lit(14, 1), Zero, Lit(1, 2)>>, <<Lit(1, 2), One, Zero>> }
PuppetAmounts == { Lit(1, 2), Lit(-1, 2) }

\* character.getPuppet(boneId).rotateX(angle) / rotateY / rotateZ
RotateX(boneId, angle) ==
  /\ Handle("rotateX", <<>>)
  /\ objects' = rotateX(bones, objects, boneId, angle)
  /\ UNCHANGED <<engineVars, history, rotationControllers, pointer, initial, loopVars,
                 gameVars>>

RotateY(boneId, angle) ==
  /\ Handle("rotateY", <<>>)
  /\ objects' = rotateY(bones, objects, boneId, angle)
  /\ UNCHANGED <<engineVars, history, rotationControllers, pointer, initial, loopVars,
                 gameVars>>

RotateZ(boneId, angle) ==
  /\ Handle("rotateZ", <<>>)
  /\ objects' = rotateZ(bones, objects, boneId, angle)
  /\ UNCHANGED <<engineVars, history, rotationControllers, pointer, initial, loopVars,
                 gameVars>>

\* character.getPuppet(boneId).moveY(distance) / moveZ
MoveY(boneId, distance) ==
  /\ Handle("moveY", <<>>)
  /\ objects' = moveY(bones, objects, boneId, distance)
  /\ UNCHANGED <<engineVars, history, rotationControllers, pointer, initial, loopVars,
                 gameVars>>

MoveZ(boneId, distance) ==
  /\ Handle("moveZ", <<>>)
  /\ objects' = moveZ(bones, objects, boneId, distance)
  /\ UNCHANGED <<engineVars, history, rotationControllers, pointer, initial, loopVars,
                 gameVars>>

\* The puppets used: the torso, and the hand, whose mesh the scene lacks.
PuppetsUsed == {"torso", "left-hand"}

NextPuppet ==
  \/ \E boneId \in PuppetsUsed : Move(boneId, <<Lit(1, 2), One, Zero>>)
  \/ \E boneId \in PuppetsUsed, v \in PuppetTurns : Rotate(boneId, v)
  \/ MoveX("torso", Lit(1, 2))
  \/ MoveY("torso", Lit(1, 2))
  \/ MoveZ("torso", Lit(1, 2))
  \/ \E boneId \in PuppetsUsed, angle \in PuppetAmounts : RotateX(boneId, angle)
  \/ RotateY("torso", Lit(1, 2))
  \/ RotateZ("torso", Lit(1, 2))

SpecPuppet == InitCharacter /\ [][NextPuppet]_vars

--------------------------------------------------------------------------
\* AnimationStateMachine: the character's states and the transitions between them

\* The place of a key in a Map kept as a sequence of entries, 0 when it is absent.
KeyIndexOf(map, key) ==
  IF \E i \in 1..Len(map) : map[i].key = key
  THEN CHOOSE i \in 1..Len(map) : map[i].key = key
  ELSE 0

\* Map.set: the value of an existing key is replaced where it stands, a new key
\* is added at the end.
EntrySet(map, key, value) ==
  IF KeyIndexOf(map, key) # 0
  THEN [map EXCEPT ![KeyIndexOf(map, key)] = [key |-> key, value |-> value]]
  ELSE Append(map, [key |-> key, value |-> value])

\* AnimationStateMachine.addState; callback is the name of the caller's
\* function, Null when the caller passed none
addState(m, stateName, animationCallback) ==
  [m EXCEPT !.states =
     EntrySet(@, stateName, [name |-> stateName, callback |-> animationCallback,
                             isActive |-> FALSE])]

\* AnimationStateMachine.addTransition; the key `${fromState}->${toState}` is
\* the pair of the two names
addTransition(m, fromState, toState, condition) ==
  [m EXCEPT !.transitions =
     EntrySet(@, <<fromState, toState>>,
              [from |-> fromState, to |-> toState, condition |-> condition])]

\* state.isActive = flag for the state of that name, if there is one
Activate(states, stateName, flag) ==
  IF KeyIndexOf(states, stateName) = 0 THEN states
  ELSE [states EXCEPT ![KeyIndexOf(states, stateName)].value.isActive = flag]

\* The states after transitionTo's first block: the state that was current is
\* no longer active.
Left(m) ==
  IF m.currentState = Null THEN m.states
  ELSE Activate(m.states, m.currentState[1], FALSE)

\* AnimationStateMachine.transitionTo
transitionTo(m, stateName) ==
  [m EXCEPT !.currentState = Some(stateName),
            !.states = Activate(Left(m), stateName, TRUE)]

\* What the conditions of the character example return for the params of a frame.
Holds(condition, params) ==
  CASE condition = "isMoving" -> params.isMoving
    [] condition = "notMoving" -> ~params.isMoving
    [] condition = "isAttacking" -> params.isAttacking
    [] condition = "attackOver" -> params.attackOver

\* A call update makes: kind "condition" of a transition's key, or kind
\* "callback" of a state's name.
Invoked(kind, of) == [kind |-> kind, of |-> of]

\* update's transitions.forEach from the i-th entry on: a transition whose from
\* is the state that is current when it is visited has its condition called,
\* and the machine moves to its `to` when the condition returns true.
RECURSIVE CheckTransitions(_, _, _, _)
Visit(m, entry, params, i, log) ==
  IF Some(entry.value.from) # m.currentState
  THEN CheckTransitions(m, i + 1, params, log)
  ELSE IF Holds(entry.value.condition, params)
       THEN CheckTransitions(transitionTo(m, entry.value.to), i + 1, params,
                             Append(log, Invoked("condition", entry.key)))
       ELSE CheckTransitions(m, i + 1, params,
                             Append(log, Invoked("condition", entry.key)))

CheckTransitions(m, i, params, log) ==
  IF i > Len(m.transitions) THEN [machine |-> m, calls |-> log]
  ELSE Visit(m, m.transitions[i], params, i, log)

\* this.states.get(this.currentState) has a callback
HasCallback(m) ==
  /\ KeyIndexOf(m.states, m.currentState[1]) # 0
  /\ m.states[KeyIndexOf(m.states, m.currentState[1])].value.callback # Null

\* update's second block: the callback of the state that is current now
Execute(r) ==
  IF r.machine.currentState # Null /\ HasCallback(r.machine)
  THEN [r EXCEPT !.calls = Append(@, Invoked("callback", r.machine.currentState[1]))]
  ELSE r

\* AnimationStateMachine.update(deltaTime, params): the machine after it and
\* the calls it made
updateMachine(m, params) ==
  IF m.currentState = Null THEN [machine |-> m, calls |-> <<>>]
  ELSE Execute(CheckTransitions(m, 1, params, <<>>))

\* The states of the character example, with a callback each.
ExampleStates == <<"idle", "walking", "attacking">>

\* The transitions of the character example, in the order they are added, and
\* the same with the transitions out of idle added last.
ExampleTransitions ==
  { << <<"idle", "walking", "isMoving">>, <<"walking", "idle", "notMoving">>,
       <<"idle", "attacking", "isAttacking">>, <<"attacking", "idle", "attackOver">> >>,
    << <<"walking", "idle", "notMoving">>, <<"attacking", "idle", "attackOver">>,
       <<"idle", "attacking", "isAttacking">>, <<"idle", "walking", "isMoving">> >> }

RECURSIVE AddStates(_, _, _)
AddStates(m, names, n) ==
  IF n = 0 THEN m ELSE addState(AddStates(m, names, n - 1), names[n], Some(names[n]))

RECURSIVE AddTransitions(_, _, _)
AddTransitions(m, ts, n) ==
  IF n = 0 THEN m
  ELSE addTransition(AddTransitions(m, ts, n - 1), ts[n][1], ts[n][2], ts[n][3])

\* The state machine after the example's addState and addTransition calls.
ExampleMachine(ts) ==
  AddTransitions(AddStates(NoMachine, ExampleStates, Len(ExampleStates)), ts, Len(ts))

\* The state names the calls pass: the example's states, and a state that was
\* never added.
StateNames == {"idle", "walking", "attacking", "jumping"}

\* The params of a frame (gameState).
Params == [isMoving : BOOLEAN, isAttacking : BOOLEAN, attackOver : BOOLEAN]

\* setupGameCharacter up to its addTransition calls
InitMachine ==
  /\ clock = [time |-> Zero, delta |-> Zero]
  /\ activeAnimations = <<>>
  /\ animations = <<>>
  /\ registered = 0
  /\ history = <<>>
  /\ evals = <<>>
  /\ error = ""
  /\ objects = [id \in {"torso", "left-arm"} |-> NewNode]
  /\ rotationControllers = <<>>
  /\ event = NoEvent
  /\ pointer = NoPointer
  /\ initial = objects
  /\ calls = <<>>
  /\ cameras = 1
  /\ browser = NoBrowser
  /\ parser = NoParser
  /\ bones = setupBones(<<>>, objects, CharacterBones)
  /\ \E ts \in ExampleTransitions :
       character = [NewCharacter(CharacterBones) EXCEPT
                      !.stateMachine = ExampleMachine(ts)]
  /\ saved = <<>>

\* character.stateMachine.addState(stateName, callback)
AddState(stateName, animationCallback) ==
  /\ Handle("addState", <<>>)
  /\ character' = [character EXCEPT
                     !.stateMachine = addState(@, stateName, animationCallback)]
  /\ UNCHANGED <<objects, engineVars, history, rotationControllers, pointer, initial,
                 loopVars, bones, saved>>

\* character.stateMachine.addTransition(fromState, toState, condition)
AddTransition(fromState, toState, condition) ==
  /\ Handle("addTransition", <<>>)
  /\ character' = [character EXCEPT
                     !.stateMachine = addTransition(@, fromState, toState, condition)]
  /\ UNCHANGED <<objects, engineVars, history, rotationControllers, pointer, initial,
                 loopVars, bones, saved>>

\* character.stateMachine.transitionTo(stateName)
TransitionTo(stateName) ==
  /\ Handle("transitionTo", <<>>)
  /\ character' = [character EXCEPT !.stateMachine = transitionTo(@, stateName)]
  /\ UNCHANGED <<objects, engineVars, history, rotationControllers, pointer, initial,
                 loopVars, bones, saved>>

\* character.stateMachine.update(0.016, gameState); the event keeps the params
MachineUpdate(params) ==
  /\ Handle("update", params)
  /\ \E r \in {updateMachine(character.stateMachine, params)} :
       /\ character' = [character EXCEPT !.stateMachine = r.machine]
       /\ calls' = r.calls
  /\ UNCHANGED <<objects, engineVars, history, rotationControllers, pointer, initial,
                 cameras, browser, parser, bones, saved>>

NextMachine ==
  \/ AddState("jumping", Null)
  \/ AddTransition("walking", "attacking", "isAttacking")
  \/ \E stateName \in StateNames : TransitionTo(stateName)
  \/ \E params \in Params : MachineUpdate(params)

SpecMachine == InitMachine /\ [][NextMachine]_vars

--------------------------------------------------------------------------
\* IKSolver: moving the end of a limb to a target

\* Vector3 arithmetic of three.js, component by component
subVectors(a, b) == [i \in 1..3 |-> FSub(a[i], b[i])]

\* v.length(): Math.sqrt(x*x + y*y + z*z)
length(v) == FSqrt(FAdd(FAdd(FMul(v[1], v[1]), FMul(v[2], v[2])), FMul(v[3], v[3])))

\* v.multiplyScalar(s)
multiplyScalar(v, s) == [i \in 1..3 |-> FMul(v[i], s)]

\* length || 1: 0 and NaN are falsy
OrOne(len) == IF IsNaN(len) \/ len[1] = 0 THEN One ELSE len

\* v.normalize(): divideScalar(length() || 1), i.e. multiplyScalar(1 / scalar)
normalize(v) == multiplyScalar(v, FDiv(One, OrOne(length(v))))

\* a.distanceTo(b): the square root of the sum of the squared differences
distanceTo(a, b) == length(subVectors(a, b))

\* a.addScaledVector(v, s)
addScaledVector(a, v, s) == [i \in 1..3 |-> FAdd(a[i], FMul(v[i], s))]

\* this.bones.get(bone.parent): the parent's place in the Map, 0 when the bone
\* has no parent or the parent is not a bone
ParentIndex(bs, bone) ==
  IF bone.parent = Null THEN 0 ELSE BoneIndex(bs, bone.parent[1])

\* Whether the while loop of calculateChainLength and of solve, at the bone at
\* place i, comes to an end: it leaves at a bone without a parent in the Map
\* or when the parent is the root bone; at a bone it has been at before it
\* repeats itself for ever.
RECURSIVE ChainWalkEnds(_, _, _, _)
ChainWalkEnds(bs, i, rootBoneId, seen) ==
  IF i = 0 THEN TRUE
  ELSE IF i \in seen THEN FALSE
  ELSE IF ParentIndex(bs, bs[i].bone) # 0 /\ bs[ParentIndex(bs, bs[i].bone)].id = rootBoneId
       THEN TRUE
       ELSE ChainWalkEnds(bs, ParentIndex(bs, bs[i].bone), rootBoneId, seen \cup {i})

\* calculateChainLength's while loop from the bone at place i on: bone ids from
\* the end bone up, the root bone included when it is met
RECURSIVE IdChainFrom(_, _, _, _)
IdChainNext(bs, p, rootBoneId, chain) ==
  IF p # 0 /\ bs[p].id = rootBoneId THEN <<rootBoneId>> \o chain
  ELSE IdChainFrom(bs, p, rootBoneId, chain)

IdChainFrom(bs, i, rootBoneId, chain) ==
  IF i = 0 THEN chain
  ELSE IdChainNext(bs, ParentIndex(bs, bs[i].bone), rootBoneId, <<bs[i].id>> \o chain)

\* IKSolver.calculateChainLength
calculateChainLength(rootBoneId, endBoneId, bs) ==
  IdChainFrom(bs, BoneIndex(bs, endBoneId), rootBoneId, <<>>)

\* The iterations solve makes when the caller passes none.
DefaultIterations == 5

\* new IKSolver(rootBoneId, endBoneId, bones)
NewIKSolver(rootBoneId, endBoneId, bs) ==
  [rootBoneId |-> rootBoneId,
   endBoneId |-> endBoneId,
   chainLength |-> calculateChainLength(rootBoneId, endBoneId, bs),
   iterations |-> DefaultIterations]

\* GameCharacter.setupIK: the solver is stored under the limb's name
setupIK(ch, bs, limbName, rootBoneId, endBoneId) ==
  [ch EXCEPT !.ikSolvers = EntrySet(@, limbName, NewIKSolver(rootBoneId, endBoneId, bs))]

\* solve's while loop from the bone at place i on: the meshes from the end bone
\* up, stopping before the root bone
RECURSIVE MeshChainFrom(_, _, _, _)
MeshChainNext(bs, p, rootBoneId, chain) ==
  IF p = 0 \/ bs[p].id = rootBoneId THEN chain
  ELSE MeshChainFrom(bs, p, rootBoneId, chain)

MeshChainFrom(bs, i, rootBoneId, chain) ==
  IF i = 0 THEN chain
  ELSE MeshChainNext(bs, ParentIndex(bs, bs[i].bone), rootBoneId,
                     <<bs[i].bone.mesh>> \o chain)

MeshChain(solver, bs) ==
  MeshChainFrom(bs, BoneIndex(bs, solver.endBoneId), solver.rootBoneId, <<>>)

\* current.position.copy(anchor.position).addScaledVector(direction, distance),
\* direction the normalized vector from anchor to current, distance their distance
Pulled(current, anchor) ==
  addScaledVector(anchor, normalize(subVectors(current, anchor)),
                  distanceTo(anchor, current))

Pull(meshes, currentId, anchorId) ==
  [meshes EXCEPT ![currentId].position =
     Pulled(meshes[currentId].position, meshes[anchorId].position)]

\* The forward pass from chain[i] down: every mesh is placed from its parent.
RECURSIVE ForwardPass(_, _, _)
ForwardPass(meshes, chain, i) ==
  IF i < 2 THEN meshes
  ELSE ForwardPass(Pull(meshes, chain[i], chain[i - 1]), chain, i - 1)

\* The backward pass from chain[i] down: every mesh is placed from its child.
RECURSIVE BackwardFrom(_, _, _)
BackwardFrom(meshes, chain, i) ==
  IF i < 1 THEN meshes
  ELSE BackwardFrom(Pull(meshes, chain[i], chain[i + 1]), chain, i - 1)

\* The backward pass: the end of the chain is put on the target first.
BackwardPass(meshes, chain, target) ==
  BackwardFrom([meshes EXCEPT ![chain[Len(chain)]].position = target], chain,
               Len(chain) - 1)

\* solve's for loop, n iterations to go
RECURSIVE Iterate(_, _, _, _)
Iterate(meshes, chain, target, n) ==
  IF n = 0 THEN meshes
  ELSE Iterate(BackwardPass(ForwardPass(meshes, chain, Len(chain)), chain, target),
               chain, target, n - 1)

\* IKSolver.solve(targetPosition, maxIterations): the meshes after it and the
\* exception it raised. `require` is defined where the module was bundled
\* for CommonJS and is not defined where it is loaded as the ES module it is.
solve(solver, bs, meshes, targetPosition, maxIterations, hasRequire) ==
  IF Len(MeshChain(solver, bs)) < 2 THEN [objects |-> meshes, error |-> ""]
  ELSE IF ~hasRequire THEN [objects |-> meshes, error |-> "ReferenceError"]
  ELSE [objects |-> Iterate(meshes, MeshChain(solver, bs), targetPosition,
                            maxIterations),
        error |-> ""]

\* GameCharacter.moveLimbToTarget
moveLimbToTarget(ch, bs, meshes, limbName, targetPosition, hasRequire) ==
  IF KeyIndexOf(ch.ikSolvers, limbName) = 0 THEN [objects |-> meshes, error |-> ""]
  ELSE solve(ch.ikSolvers[KeyIndexOf(ch.ikSolvers, limbName)].value, bs, meshes,
             targetPosition, DefaultIterations, hasRequire)

\* The limbs set up: the documented one (the root is the end bone's parent),
\* the arm from the torso, and a limb whose root is not above its end.
Limbs ==
  { <<"left-arm", "left-arm", "left-hand">>,
    <<"left-arm", "torso", "left-hand">>,
    <<"reach", "left-hand", "left-arm">> }

\* The targets of the guide's examples, and the origin.
Targets == { <<One, Lit(1, 2), Zero>>, <<One, One, Zero>>, <<Zero, Zero, Zero>> }

\* Where the document places the hand on the arm.
HandPositions == { <<Zero, Lit(-1, 2), Zero>>, <<Zero, Zero, Zero>> }

\* new GameCharacter('Player', gameController, characterBones) on a scene that
\* has the three meshes
InitIK ==
  /\ clock = [time |-> Zero, delta |-> Zero]
  /\ activeAnimations = <<>>
  /\ animations = <<>>
  /\ registered = 0
  /\ history = <<>>
  /\ evals = <<>>
  /\ error = ""
  /\ \E hand \in HandPositions :
       objects = [id \in {"torso", "left-arm", "left-hand"} |->
                    CASE id = "torso" -> NewNode
                      [] id = "left-arm" -> [NewNode EXCEPT !.position = <<One, Zero, Zero>>]
                      [] id = "left-hand" -> [NewNode EXCEPT !.position = hand]]
  /\ rotationControllers = <<>>
  /\ event = NoEvent
  /\ pointer = NoPointer
  /\ initial = objects
  /\ calls = <<>>
  /\ cameras = 1
  /\ browser = NoBrowser
  /\ parser = NoParser
  /\ bones = setupBones(<<>>, objects, CharacterBones)
  /\ character = NewCharacter(CharacterBones)
  /\ saved = <<>>

\* character.setupIK(limbName, rootBoneId, endBoneId); a call whose chain walk
\* does not end never returns ("Hang") and stores no solver
SetupIK(limbName, rootBoneId, endBoneId) ==
  /\ Handle("setupIK", <<limbName, rootBoneId, endBoneId>>)
  /\ IF ChainWalkEnds(bones, BoneIndex(bones, endBoneId), rootBoneId, {})
     THEN /\ character' = setupIK(character, bones, limbName, rootBoneId, endBoneId)
          /\ error' = ""
     ELSE /\ character' = character
          /\ error' = "Hang"
  /\ UNCHANGED <<clock, activeAnimations, animations, registered, evals, objects,
                 history, rotationControllers, pointer, initial, loopVars, bones, saved>>

\* character.moveLimbToTarget(limbName, targetPosition); the event keeps the
\* limb and the target
MoveLimbToTarget(limbName, targetPosition, hasRequire) ==
  /\ Handle("moveLimbToTarget", <<limbName, targetPosition>>)
  /\ \E r \in {moveLimbToTarget(character, bones, objects, limbName, targetPosition,
                                hasRequire)} :
       /\ objects' = r.objects
       /\ error' = r.error
  /\ UNCHANGED <<clock, activeAnimations, animations, registered, evals, history,
                 rotationControllers, pointer, initial, loopVars, gameVars>>

NextIK ==
  \/ \E limb \in Limbs : SetupIK(limb[1], limb[2], limb[3])
  \/ \E limbName \in {"left-arm", "reach"}, target \in Targets, hasRequire \in BOOLEAN :
       MoveLimbToTarget(limbName, target, hasRequire)

SpecIK == InitIK /\ [][NextIK]_vars

--------------------------------------------------------------------------
\* The IKSolver on bone maps whose parent references form cycles

\* The character's bones as they should be; the arm and the hand naming each
\* other as parent; the arm naming itself.
ChainDefinitions ==
  { CharacterBones,
    << [id |-> "torso", parent |-> Null],
       [id |-> "left-arm", parent |-> Some("left-hand")],
       [id |-> "left-hand", parent |-> Some("left-arm")] >>,
    << [id |-> "torso", parent |-> Null],
       [id |-> "left-arm", parent |-> Some("left-arm")],
       [id |-> "left-hand", parent |-> Some("left-arm")] >> }

\* new GameCharacter('Player', gameController, boneDefinitions)
InitChain ==
  /\ clock = [time |-> Zero, delta |-> Zero]
  /\ activeAnimations = <<>>
  /\ animations = <<>>
  /\ registered = 0
  /\ history = <<>>
  /\ evals = <<>>
  /\ error = ""
  /\ objects = [id \in {"torso", "left-arm", "left-hand"} |->
                  CASE id = "torso" -> NewNode
                    [] id = "left-arm" -> [NewNode EXCEPT !.position = <<One, Zero, Zero>>]
                    [] id = "left-hand" -> [NewNode EXCEPT !.position = <<Zero, Lit(-1, 2), Zero>>]]
  /\ rotationControllers = <<>>
  /\ event = NoEvent
  /\ pointer = NoPointer
  /\ initial = objects
  /\ calls = <<>>
  /\ cameras = 1
  /\ browser = NoBrowser
  /\ parser = NoParser
  /\ \E boneDefinitions \in ChainDefinitions :
       /\ bones = setupBones(<<>>, objects, boneDefinitions)
       /\ character = NewCharacter(boneDefinitions)
  /\ saved = <<>>

NextChain ==
  \/ \E limbName \in {"left-arm", "reach"}, rootBoneId \in PuppetIds, endBoneId \in PuppetIds :
       SetupIK(limbName, rootBoneId, endBoneId)
  \/ \E limbName \in {"left-arm", "reach"}, hasRequire \in BOOLEAN :
       MoveLimbToTarget(limbName, <<One, Lit(1, 2), Zero>>, hasRequire)

SpecChain == InitChain /\ [][NextChain]_vars

--------------------------------------------------------------------------
\* The engine and a puppet on the same nodes: a game that moves a bone whose
\* mesh the document animates

\* The documents: a position track that runs twice, and the keyframe track.
SharedScenes == { <<Slide("2")>>, <<Bounce>> }

\* The time steps of the game's frames: two frame lengths and a step backwards.
SharedDeltas == {Lit(2, 1), Lit(4, 1), Lit(-1, 1)}

\* renderer.init(), then new GameCharacter(name, gameController, boneDefinitions)
InitShared ==
  /\ clock = [time |-> Zero, delta |-> Zero]
  /\ objects = BuiltObjects
  /\ animations \in SharedScenes
  /\ activeAnimations = setupAnimations(animations, Len(animations))
  /\ registered = Len(animations)
  /\ history = [i \in 1..Len(animations) |->
                  [op |-> "register",
                   key |-> AnimKey(animations[i].targetId, animations[i].animation),
                   delta |-> Zero]]
  /\ evals = <<>>
  /\ error = ""
  /\ rotationControllers = <<>>
  /\ event = NoEvent
  /\ pointer = NoPointer
  /\ initial = objects
  /\ calls = <<>>
  /\ cameras = 1
  /\ browser = NoBrowser
  /\ parser = NoParser
  /\ bones = setupBones(<<>>, objects, BoneDefinitions)
  /\ character = NewCharacter(BoneDefinitions)
  /\ saved = <<>>

NextShared ==
  \/ \E deltaTime \in SharedDeltas : Update(deltaTime)
  \/ \E v \in PuppetVectors : Move("cube", v)

SpecShared == InitShared /\ [][NextShared]_vars

--------------------------------------------------------------------------
\* The engine on documents whose tracks have no duration

\* scale 1,1,1 -> 2,2,2 with dur="0s"
Instant == Track("cube", FromTo("scale", <<"1", "1", "1">>, <<"2", "2", "2">>,
                                <<"0", "s">>, "1"))

\* the same with a dur that parseTime's pattern does not match
Unparsed == Track("cube", FromTo("scale", <<"1", "1", "1">>, <<"2", "2", "2">>,
                                 <<"fast", "">>, "1"))

\* the same with dur="0s", starting after 2s
InstantLate == Track("cube", Animate("scale", <<"1", "1", "1">>, <<"2", "2", "2">>,
                                     <<"0", "s">>, <<"2", "s">>, "1", "freeze",
                                     Null, Null))

TimingScenes == { <<Instant>>, <<Unparsed>>, <<InstantLate>>, <<Instant, Spin>> }

\* new AnimationEngine(), and a parsed document whose scene is built
InitTiming ==
  /\ clock = [time |-> Zero, delta |-> Zero]
  /\ activeAnimations = <<>>
  /\ objects = BuiltObjects
  /\ animations \in TimingScenes
  /\ registered = 0
  /\ history = <<>>
  /\ evals = <<>>
  /\ error = ""
  /\ rotationControllers = <<>>
  /\ event = NoEvent
  /\ pointer = NoPointer
  /\ initial = objects
  /\ calls = <<>>
  /\ cameras = 1
  /\ browser = NoBrowser
  /\ parser = NoParser
  /\ bones = <<>>
  /\ character = NoCharacter
  /\ saved = <<>>

SpecTiming == InitTiming /\ [][Next]_vars

--------------------------------------------------------------------------
\* Properties of the interpolation functions (checked under SpecInterp)

\* The only track of the registry, the last evaluation, the node's position.
OnlyAnim == activeAnimations[1].anim
LastProgress == evals[1].progress
Position == objects["cube"].position

\* x - y without rounding (x, y finite)
ExactDiff(x, y) == Frac(x[1] * y[2] - y[1] * x[2], x[2] * y[2])

AppliedSimple == evals # <<>> /\ evals[1].mode = "simple"
AppliedKeyframe == evals # <<>> /\ evals[1].mode = "keyframe"

\* C1, as stated: applySimpleAnimation writes from[i] + (to[i]-from[i])*p for
\* each component, and so exactly `from` at p = 0 and exactly `to` at p = 1.
C1_ExactEndpoints ==
  AppliedSimple =>
    /\ Len(Position) = Len(parseValues(OnlyAnim.from))
    /\ \A i \in 1..Len(Position) :
         Position[i] = FAdd(parseValues(OnlyAnim.from)[i],
                            FMul(FSub(parseValues(OnlyAnim.to)[i],
                                      parseValues(OnlyAnim.from)[i]), LastProgress))
    /\ LastProgress = Zero => Position = parseValues(OnlyAnim.from)
    /\ LastProgress = One => Position = parseValues(OnlyAnim.to)

\* C1, amended: applySimpleAnimation writes the floating-point value of
\* from[i] + (to[i]-from[i])*p for each component; that is exactly `from` at
\* p = 0, and at p = 1 it is exactly `to` in every component whose difference
\* to[i]-from[i] is computed without rounding.
C1_RoundedEndpoints ==
  AppliedSimple =>
    /\ Len(Position) = Len(parseValues(OnlyAnim.from))
    /\ \A i \in 1..Len(Position) :
         /\ Position[i] = FAdd(parseValues(OnlyAnim.from)[i],
                               FMul(FSub(parseValues(OnlyAnim.to)[i],
                                         parseValues(OnlyAnim.from)[i]), LastProgress))
         /\ (/\ LastProgress = One
             /\ FSub(parseValues(OnlyAnim.to)[i], parseValues(OnlyAnim.from)[i])
                  = ExactDiff(parseValues(OnlyAnim.to)[i], parseValues(OnlyAnim.from)[i]))
            => Position[i] = parseValues(OnlyAnim.to)[i]
    /\ LastProgress = Zero => Position = parseValues(OnlyAnim.from)

\* C1's case: a simple track applied at p = 1 whose `to` differs from its
\* `from` and is reached exactly.
C1_Witness ==
  /\ AppliedSimple
  /\ LastProgress = One
  /\ OnlyAnim.from = <<"0.1", "3", "0">>
  /\ OnlyAnim.to = <<"0.1", "0", "2">>
  /\ Position = parseValues(OnlyAnim.to)

\* The keyTimes of the only track strictly increase.
StrictKeyTimes ==
  \A i \in 1..(Len(OnlyAnim.keyTimes[1]) - 1) :
    FLt(OnlyAnim.keyTimes[1][i], OnlyAnim.keyTimes[1][i + 1])

\* C2: applyKeyframeAnimation at progress = keyTimes[i] writes exactly
\* values[i], for every keyframe i from the first to the last (stated for
\* keyTimes that strictly increase, where each time names one keyframe).
C2_KeyframesExact ==
  (AppliedKeyframe /\ StrictKeyTimes) =>
    \A i \in 1..Len(OnlyAnim.keyTimes[1]) :
      LastProgress = OnlyAnim.keyTimes[1][i]
        => Position = parseValues(OnlyAnim.values[1][i])

\* The keyframe k (from 1) of the interval that holds p: the largest with
\* keyTimes[k] <= p, when p < keyTimes[k+1]; 0 when there is none.
IntervalOf(keyTimes, p) ==
  IF \E k \in 1..(Len(keyTimes) - 1) :
       /\ FLe(keyTimes[k], p) /\ FLt(p, keyTimes[k + 1])
       /\ \A j \in (k + 1)..Len(keyTimes) : ~FLe(keyTimes[j], p)
  THEN CHOOSE k \in 1..(Len(keyTimes) - 1) :
         /\ FLe(keyTimes[k], p) /\ FLt(p, keyTimes[k + 1])
         /\ \A j \in (k + 1)..Len(keyTimes) : ~FLe(keyTimes[j], p)
  ELSE 0

\* values[k] + (values[k+1] - values[k]) * (p - keyTimes[k]) / (keyTimes[k+1] - keyTimes[k])
BetweenKeyframes(keyTimes, values, k, p) ==
  [i \in 1..Len(parseValues(values[k])) |->
     FAdd(parseValues(values[k])[i],
          FMul(FSub(parseValues(values[k + 1])[i], parseValues(values[k])[i]),
               FDiv(FSub(p, keyTimes[k]), FSub(keyTimes[k + 1], keyTimes[k]))))]

\* The track of the scenario: 0,0,0; 0,2,0; 0,0,0 at 0; 0.5; 1 in 3s.
IsBounceIn3s ==
  /\ OnlyAnim.values = Some(<< <<"0", "0", "0">>, <<"0", "2", "0">>, <<"0", "0", "0">> >>)
  /\ OnlyAnim.keyTimes = Some(<<Lit(0, 1), Lit(1, 2), Lit(1, 1)>>)
  /\ OnlyAnim.duration = Lit(3, 1)

\* C3: at a progress p inside the interval of keyframe k (the largest k with
\* keyTimes[k] <= p, and p < keyTimes[k+1]) applyKeyframeAnimation writes
\* values[k] + (values[k+1]-values[k]) * (p-keyTimes[k])/(keyTimes[k+1]-keyTimes[k]);
\* for 0,0,0; 0,2,0; 0,0,0 at 0; 0.5; 1 in 3s, update's progress at time 2.25 is
\* 0.75 and the y written there is 1.
C3_BetweenKeyframes ==
  AppliedKeyframe =>
    /\ IntervalOf(OnlyAnim.keyTimes[1], LastProgress) # 0
         => Position = BetweenKeyframes(OnlyAnim.keyTimes[1], OnlyAnim.values[1],
                                        IntervalOf(OnlyAnim.keyTimes[1], LastProgress),
                                        LastProgress)
    /\ IsBounceIn3s
         => /\ Progress(FSub(Lit(9, 4), OnlyAnim.startTime), OnlyAnim.duration) = Lit(3, 4)
            /\ LastProgress = Lit(3, 4) => Position = <<Zero, One, Zero>>

\* C3's case: the scenario's track applied at progress 0.75.
C3_Witness ==
  /\ AppliedKeyframe
  /\ IsBounceIn3s
  /\ LastProgress = Lit(3, 4)
  /\ IntervalOf(OnlyAnim.keyTimes[1], LastProgress) = 2
  /\ Position = <<Zero, One, Zero>>

--------------------------------------------------------------------------
\* Properties of the engine (checked under Spec)

LastCall == history[Len(history)]

\* The document's first track was registered on the fresh engine and every
\* call since was an update.
RegisteredThenUpdated ==
  /\ Len(history) >= 1
  /\ history[1].op = "register"
  /\ \A i \in 2..Len(history) : history[i].op = "update"

\* ... with time steps that are numbers >= 0
RegisteredThenAdvanced ==
  /\ RegisteredThenUpdated
  /\ \A i \in 2..Len(history) : FGe(history[i].delta, Zero)

\* ... with one and the same time step
RegisteredThenStepped(deltaTime) ==
  /\ RegisteredThenUpdated
  /\ \A i \in 2..Len(history) : history[i].delta = deltaTime

\* The track has run to its end: started, and deactivated.
Finished(anim) == anim.hasStarted /\ ~anim.isActive

\* The step is a call update(deltaTime, objects).
UpdateStep(deltaTime) ==
  /\ Len(history') = Len(history) + 1
  /\ history'[Len(history')].op = "update"
  /\ history'[Len(history')].delta = deltaTime

\* C4: an indefinite track repeats with period = duration: under equal time
\* steps of duration/k, the value written by update number n is the one the
\* first cycle wrote at its step ((n-1) mod k) + 1 (stated for Spin, 8s, and
\* steps of 2 and 4).
C4_Periodic ==
  \A k \in {2, 4} :
    (/\ animations = <<Spin>>
     /\ RegisteredThenStepped(FDiv(OnlyAnim.duration, Lit(k, 1)))
     /\ Len(history) >= 2)
    => objects["cube"].rotation =
         SimpleValue(OnlyAnim, Lit(((Len(history) - 2) % k) + 1, k))

\* C5: Spin (0,0,0 -> 0,6.28,0 in 8s, indefinite) registered on a fresh
\* engine: after update(4) rotation y is half the sweep, after a further
\* update(4) it is back at the `from` value 0 and is not the `to` value 6.28.
C5_WrapsToFrom ==
  animations = <<Spin>> =>
    /\ (RegisteredThenStepped(Lit(4, 1)) /\ Len(history) = 2)
         => objects["cube"].rotation[2] = FMul(parseFloat("6.28"), Lit(1, 2))
    /\ (RegisteredThenStepped(Lit(4, 1)) /\ Len(history) = 3)
         => /\ objects["cube"].rotation[2] = parseFloat("0")
            /\ objects["cube"].rotation[2] # parseFloat("6.28")

\* C6: a track with repeatCount N plays N full cycles of `duration` seconds
\* of clock time before it is deactivated: it is not deactivated while the
\* clock is short of N * duration (stated for Slide, 4s, registered at time 0).
C6_FullCycles ==
  \A n \in {"1", "2", "3"} :
    (animations = <<Slide(n)>> /\ RegisteredThenAdvanced /\ Finished(OnlyAnim))
    => FGe(clock.time, FMul(parseInt(<<"str", n>>), OnlyAnim.duration))

\* The value a track ends on: `to`, or the last entry of `values`.
FinalValue(anim) ==
  IF IsKeyframe(anim) THEN parseValues(anim.values[1][Len(anim.values[1])])
  ELSE parseValues(anim.to)

\* C7: once a finite track with fill=freeze has completed its last cycle, the
\* target property equals the track's final value, in that and every later
\* state (stated for Slide and Bounce).
C7_FreezesFinal ==
  (/\ animations \in {<<Slide("1")>>, <<Slide("2")>>, <<Slide("3")>>, <<Bounce>>}
   /\ RegisteredThenAdvanced
   /\ OnlyAnim.fill = "freeze"
   /\ Finished(OnlyAnim))
  => objects["cube"][OnlyAnim.attributeName] = FinalValue(OnlyAnim)

\* C8, as stated: in every reachable state, a freshly registered begin=0
\* track included, update(0, objects) changes no node property (stated for
\* the document whose one track is Slide).
C8_ZeroStepChangesNothing ==
  [][(animations = <<Slide("1")>> /\ UpdateStep(Zero)) => objects' = objects]_vars

\* C8, amended: update(0, objects) changes no node property when the call
\* before it on the engine was an update too; the first update after a
\* registerAnimation may activate the new track and write its value.
C8_ZeroStepAfterUpdate ==
  [][(UpdateStep(Zero) /\ history # <<>> /\ LastCall.op = "update")
       => objects' = objects]_vars

\* C8's case: update(0) right after an update that moved a node, with a track
\* evaluated in it.
C8_Witness ==
  /\ Len(history) >= 3
  /\ LastCall.op = "update" /\ LastCall.delta = Zero
  /\ history[Len(history) - 1].op = "update"
  /\ history[Len(history) - 1].delta = Lit(2, 1)
  /\ evals # <<>>
  /\ objects # BuiltObjects

\* C9: update with a negative or NaN time step is rejected: the clock, the
\* tracks and the nodes are after the call what they were before it.
C9_RejectsBadDelta ==
  [][\A deltaTime \in Deltas :
       (UpdateStep(deltaTime) /\ (IsNaN(deltaTime) \/ FLt(deltaTime, Zero)))
         => UNCHANGED <<clock, activeAnimations, objects>>]_vars

\* C10: registerAnimation rejects a simple track whose `from` and `to` differ
\* in length, so that no such track is ever in the registry.
C10_RejectsMismatch ==
  \A i \in 1..Len(activeAnimations) :
    ~IsKeyframe(activeAnimations[i].anim)
      => Len(parseValues(activeAnimations[i].anim.from))
           = Len(parseValues(activeAnimations[i].anim.to))

\* The step is a call of update.
AnyUpdateStep == \E deltaTime \in Deltas : UpdateStep(deltaTime)

\* The track is due in the call that has advanced the clock to `time`: it is
\* active, or it has not started and the clock has reached its begin.
Due(anim, time) == anim.isActive \/ (~anim.hasStarted /\ FGe(time, anim.startTime))

\* The progress at which the call evaluated the track of `key`, as a set:
\* empty when it did not evaluate it.
EvaluatedAt(seen, key) == { seen[j].progress : j \in {k \in 1..Len(seen) : seen[k].key = key} }

\* The value the dispatch of update writes for the track at `progress`.
TrackValue(anim, progress) ==
  IF IsKeyframe(anim) THEN KeyframeValue(anim, progress) ELSE SimpleValue(anim, progress)

\* The track's path resolves on its node.
WellFormed(anim, objs) ==
  anim.targetId \in DOMAIN objs => ~PropertyFails(objs[anim.targetId], anim.attributeName)

\* C11: in a call of update, a track whose targetId is not in the objects map
\* is skipped: it is neither changed nor evaluated, and it raises no error (an
\* error of the call comes from a track whose target is present). Every track
\* whose target is present and that is due is evaluated and its value written
\* in the same call, whatever its place relative to the skipped track (in a
\* call that no failing track aborts, see C12).
C11_SkipsMissingTarget ==
  [][AnyUpdateStep =>
       /\ error' # "" =>
            \E i \in 1..Len(activeAnimations) :
              ~WellFormed(activeAnimations[i].anim, objects)
       /\ \A i \in 1..Len(activeAnimations) :
            IF activeAnimations[i].anim.targetId \notin DOMAIN objects
            THEN /\ activeAnimations'[i] = activeAnimations[i]
                 /\ EvaluatedAt(evals', activeAnimations[i].key) = {}
            ELSE (error' = "" /\ Due(activeAnimations[i].anim, clock'.time))
                   => /\ EvaluatedAt(evals', activeAnimations[i].key) # {}
                      /\ \A p \in EvaluatedAt(evals', activeAnimations[i].key) :
                           getPropertyValue(objects'[activeAnimations[i].anim.targetId],
                                            activeAnimations[i].anim.attributeName)
                             = TrackValue(activeAnimations[i].anim, p)]_vars

\* C11's case: a document whose first track has no node in the scene and whose
\* second has one; after an update the first is untouched and the second has
\* been evaluated and has moved its node, with no error.
C11_Witness ==
  /\ animations = <<Stray, Spin>>
  /\ Len(activeAnimations) = 2
  /\ LastCall.op = "update"
  /\ error = ""
  /\ activeAnimations[1].anim.targetId \notin DOMAIN objects
  /\ ~activeAnimations[1].anim.hasStarted
  /\ EvaluatedAt(evals, activeAnimations[2].key) = {Lit(1, 2)}
  /\ objects["cube"].rotation # NewNode.rotation

\* C12: a track whose evaluation fails never aborts update: the call raises
\* no error, and every track that is well formed, has its target and is due is
\* evaluated in the call, wherever it stands in the registry.
C12_IsolatesFailure ==
  [][AnyUpdateStep =>
       /\ error' = ""
       /\ \A i \in 1..Len(activeAnimations) :
            (/\ activeAnimations[i].anim.targetId \in DOMAIN objects
             /\ WellFormed(activeAnimations[i].anim, objects)
             /\ Due(activeAnimations[i].anim, clock'.time))
            => EvaluatedAt(evals', activeAnimations[i].key) # {}]_vars

\* C13: when an update deactivates a finite track with fill=remove (its final
\* cycle is complete), the target property has after that update the value
\* captured as startValue when the track became active.
C13_RemoveReverts ==
  [][AnyUpdateStep =>
       \A i \in 1..Len(activeAnimations) :
         (/\ ~Finished(activeAnimations[i].anim)
          /\ Finished(activeAnimations'[i].anim)
          /\ activeAnimations[i].anim.fill = "remove"
          /\ activeAnimations'[i].anim.startValue # Null)
         => getPropertyValue(objects'[activeAnimations[i].anim.targetId],
                             activeAnimations[i].anim.attributeName)
              = activeAnimations'[i].anim.startValue[1]]_vars

\* The step is a call of registerAnimation.
RegisterStep ==
  /\ Len(history') = Len(history) + 1
  /\ history'[Len(history')].op = "register"

\* The two tracks are of the same (targetId, attributeName) pair.
SamePair(a, b) == a.targetId = b.targetId /\ a.attributeName = b.attributeName

\* The fields of a track that come from the descriptor handed to registerAnimation.
DescriptorFields ==
  {"type", "attributeName", "from", "to", "dur", "begin", "end", "repeatCount",
   "fill", "values", "keyTimes"}

Descriptor(r) == [f \in DescriptorFields |-> r[f]]

\* The track is in fresh state.
Fresh(anim) ==
  /\ ~anim.hasStarted
  /\ ~anim.isActive
  /\ anim.elapsed = Zero
  /\ anim.startValue = Null

OneTrackPerPair ==
  \A i, j \in 1..Len(activeAnimations) :
    SamePair(activeAnimations[i].anim, activeAnimations[j].anim) => i = j

\* registerAnimation(track.targetId, track.animation) has left one track of the
\* pair, fresh and with the descriptor of the call, and the tracks of the
\* other pairs as they were.
Replaced(track) ==
  /\ \E i \in 1..Len(activeAnimations') :
       /\ activeAnimations'[i].anim.targetId = track.targetId
       /\ Descriptor(activeAnimations'[i].anim) = Descriptor(track.animation)
       /\ Fresh(activeAnimations'[i].anim)
  /\ \A j \in 1..Len(activeAnimations) :
       \/ /\ activeAnimations[j].anim.targetId = track.targetId
          /\ activeAnimations[j].anim.attributeName = track.animation.attributeName
       \/ \E i \in 1..Len(activeAnimations') : activeAnimations'[i] = activeAnimations[j]
  /\ Len(activeAnimations') <= Len(activeAnimations) + 1

\* C14: the engine holds at most one track per (targetId, attributeName)
\* pair, and a registerAnimation call for a pair leaves for it one track in
\* fresh state (hasStarted, isActive false, elapsed 0) carrying the descriptor
\* of that call only, whatever track of the pair was there before.
C14_OneTrackPerPair ==
  /\ []OneTrackPerPair
  /\ [][RegisterStep => Replaced(animations[registered + 1])]_vars

\* C14's case: a position track that has run and moved its node is replaced
\* by the registration of a keyframe track for the same node and attribute.
C14_Witness ==
  /\ animations = <<Slide("3"), Bounce>>
  /\ registered = 2
  /\ Len(history) = 3
  /\ history[2].op = "update" /\ history[2].delta = Lit(4, 1)
  /\ LastCall.op = "register"
  /\ Len(activeAnimations) = 1
  /\ IsKeyframe(OnlyAnim)
  /\ OnlyAnim.repeatCount = <<"str", "1">>
  /\ Fresh(OnlyAnim)
  /\ objects["cube"].position # NewNode.position

--------------------------------------------------------------------------
\* Properties of the rotation controller (checked under SpecControl)

\* The sum of component k of the drag samples
RECURSIVE SumOf(_, _)
SumOf(samples, k) ==
  IF samples = <<>> THEN 0
  ELSE SumOf(SubSeq(samples, 1, Len(samples) - 1), k) + samples[Len(samples)][k]

\* The floating-point sum, in the order of arrival, of the products
\* delta * sensitivity of component k of the drag samples
RECURSIVE Accumulated(_, _, _)
Accumulated(samples, k, sensitivity) ==
  IF samples = <<>> THEN Zero
  ELSE FAdd(Accumulated(SubSeq(samples, 1, Len(samples) - 1), k, sensitivity),
            FMul(Lit(samples[Len(samples)][k], 1), sensitivity))

\* The step handles a move event.
MoveStep == event'.n = event.n + 1 /\ event'.type \in {"mousemove", "touchmove"}

\* C16, as stated: the orientation is rotation.y = s * (sum of deltaX) and
\* rotation.x = s * (sum of deltaY) over the move samples received while
\* dragging, and rotation.z is unchanged.
C16_ScaledSum ==
  /\ Controller.rotation.y = FMul(Controller.sensitivity, Lit(SumOf(pointer.samples, 1), 1))
  /\ Controller.rotation.x = FMul(Controller.sensitivity, Lit(SumOf(pointer.samples, 2), 1))
  /\ Controller.rotation.z = Zero

\* The orientation is the floating-point accumulation of the samples.
AccumulatesSamples ==
  /\ Controller.rotation.y = Accumulated(pointer.samples, 1, Controller.sensitivity)
  /\ Controller.rotation.x = Accumulated(pointer.samples, 2, Controller.sensitivity)
  /\ Controller.rotation.z = Zero

\* C16, amended: rotation.y is the floating-point sum, in order of arrival,
\* of the rounded products deltaX * s of the move samples received while
\* dragging, rotation.x the same of deltaY * s, and rotation.z stays 0; a
\* move event received while not dragging changes neither the orientation
\* nor the target.
C16_AccumulatesSamples ==
  /\ []AccumulatesSamples
  /\ [][(MoveStep /\ ~pointer.pressed)
         => /\ rotationControllers'[1].controller.rotation = Controller.rotation
            /\ objects' = objects]_vars

\* C16's case: a drag with the samples (3, 0) and (-2, 4) at sensitivity
\* 0.015, whose accumulated y is not the product of the sensitivity and the sum.
C16_Witness ==
  /\ Controller.sensitivity = Lit(15, 1000)
  /\ pointer.pressed
  /\ pointer.samples = << <<3, 0>>, <<-2, 4>> >>
  /\ event.type = "mousemove"
  /\ Controller.rotation.y # FMul(Controller.sensitivity, Lit(1, 1))
  /\ Target.rotation = <<Controller.rotation.x, Controller.rotation.y, Zero>>

\* The step is a call of controller.reset().
ResetStep == event'.n = event.n + 1 /\ event'.type = "reset"

C18_ResetRestoresInitial ==
  [][(ResetStep /\ pointer.dragged > 0)
       => objects'[TargetId].rotation = initial[TargetId].rotation]_vars

--------------------------------------------------------------------------
\* Properties of the render loop (checked under SpecLoop)

\* The step is a frame: one run of animate.
FrameStep ==
  /\ Len(history') = Len(history) + 1
  /\ history'[Len(history')].op = "update"

\* The places of the calls of `name` among the calls of the last frame.
CallsOf(name) == {i \in 1..Len(calls) : calls[i].name = name}

\* In the last frame update was called once, with a delta >= 0, and before
\* any render.
UpdatedOnceThenDrawn ==
  calls # <<>> =>
    /\ Cardinality(CallsOf("update")) = 1
    /\ \A i \in CallsOf("update") : FGe(calls[i].delta, Zero)
    /\ \A j \in CallsOf("render") : \E i \in CallsOf("update") : i < j

\* C15: in every frame of animate the engine's update is called exactly once,
\* with a non-negative delta, and before the scene is drawn in that frame; the
\* engine's clock is after the frame one delta further.
C15_UpdateOnceBeforeDraw ==
  /\ []UpdatedOnceThenDrawn
  /\ [][FrameStep => /\ clock'.delta = calls'[2].delta
                      /\ clock'.time = FAdd(clock.time, calls'[2].delta)]_vars

\* C15's case: a second frame of a scene with a camera, in which the rotation
\* track was evaluated and the scene drawn after it.
C15_Witness ==
  /\ cameras = 1
  /\ browser = NoBrowser
  /\ parser = NoParser
  /\ Len(Updates) = 2
  /\ LastCall.op = "update"
  /\ evals # <<>>
  /\ Len(calls) = 3
  /\ calls[2].name = "update" /\ calls[2].delta = FrameDelta
  /\ calls[3].name = "render"

\* The key of the track on the rotation of the controller's mesh, and the track.
RotationKey == TargetId \o "-rotation"
TrackOf(map, key) == map[CHOOSE i \in 1..Len(map) : map[i].key = key].anim

\* The step is a controller event that writes the target: a drag sample or a
\* reset.
WriteStep == pointer'.dragged = pointer.dragged + 1 \/ ResetStep

\* The orientation of the controller as the three components of a rotation.
Orientation(c) == <<c.rotation.x, c.rotation.y, c.rotation.z>>

\* C19: a frame in which the engine evaluates the track on the mesh's
\* rotation leaves as the mesh's rotation the track's value, whole, and the
\* controller as it was; a controller event that writes (drag sample, reset)
\* leaves as the mesh's rotation the controller's orientation, whole, and the
\* engine's tracks and clock as they were; nothing else changes the rotation.
\* So the rotation at any draw is the value of the writer that ran last.
C19_LastWriterWins ==
  /\ [][FrameStep =>
          /\ rotationControllers' = rotationControllers
          /\ \A p \in EvaluatedAt(evals', RotationKey) :
               objects'[TargetId].rotation
                 = TrackValue(TrackOf(activeAnimations, RotationKey), p)
          /\ EvaluatedAt(evals', RotationKey) = {}
               => objects'[TargetId].rotation = Target.rotation]_vars
  /\ [][WriteStep =>
          /\ objects'[TargetId].rotation = Orientation(rotationControllers'[1].controller)
          /\ UNCHANGED <<clock, activeAnimations>>]_vars
  /\ [][objects'[TargetId].rotation # Target.rotation => (FrameStep \/ WriteStep)]_vars

\* C19's case: the mesh was dragged, and a later frame has evaluated the
\* rotation track and drawn: the mesh's rotation is the track's value and has
\* nothing of the controller's orientation, which is still what the drag made it.
C19_Witness ==
  /\ pointer.dragged >= 1
  /\ Controller.rotation.x # Zero /\ Controller.rotation.y # Zero
  /\ Len(Updates) >= 2
  /\ CallsOf("render") # {}
  /\ EvaluatedAt(evals, RotationKey) # {}
  /\ \A p \in EvaluatedAt(evals, RotationKey) :
       Target.rotation = TrackValue(TrackOf(activeAnimations, RotationKey), p)
  /\ Target.rotation[1] = Zero
  /\ Target.rotation[2] # Controller.rotation.y
  /\ Controller.rotation.x = Accumulated(pointer.samples, 2, Controller.sensitivity)

--------------------------------------------------------------------------
\* Properties of the game controller (checked under SpecBones)

\* C20: resetBone(boneId) on a bone that is set up, after any rotateBone,
\* moveBone and scaleBone calls, leaves the bone's mesh with the position,
\* rotation and scale it had when the bone was set up.
C20_ResetRestoresBone ==
  [][(event'.n = event.n + 1 /\ event'.type = "resetBone" /\ BoneIndex(bones, "cube") # 0)
       => /\ objects'["cube"].position = initial["cube"].position
          /\ objects'["cube"].rotation = initial["cube"].rotation
          /\ objects'["cube"].scale = initial["cube"].scale]_vars

--------------------------------------------------------------------------
\* Properties of the GameCharacter (checked under SpecCharacter)

SetStateStep == event'.n = event.n + 1 /\ event'.type = "setState"

\* C21: with s = character.getState(), character.setState(s) after any puppet
\* move, rotate and scale operations leaves every bone's position, rotation and
\* scale at the values recorded in s, and setState of the state the skeleton
\* is in changes nothing.
C21_RestoresSavedState ==
  [][SetStateStep
       => /\ getAllBones(bones, objects') = saved
          /\ (getAllBones(bones, objects) = saved => objects' = objects)]_vars

\* C21 witness: setState found the bones away from the saved state and put
\* them back.
C21_Witness ==
  /\ event.type = "setState"
  /\ event.at # saved
  /\ getAllBones(bones, objects) = saved
  /\ \E i \in 1..Len(saved) :
       /\ event.at[i].position # saved[i].position
       /\ event.at[i].scale # saved[i].scale

--------------------------------------------------------------------------
\* Properties of the AnimationStateMachine (checked under SpecMachine)

MachineUpdateStep == event'.n = event.n + 1 /\ event'.type = "update"

\* The keys of the conditions and the names of the callbacks in a list of calls.
ConditionsIn(log) == SelectSeq(log, LAMBDA c : c.kind = "condition")
CallbacksIn(log) == SelectSeq(log, LAMBDA c : c.kind = "callback")

\* The transitions out of a state, and those of them whose condition returns
\* true for the params.
TransitionsFrom(m, stateName) ==
  SelectSeq(m.transitions, LAMBDA e : e.value.from = stateName)
EnabledFrom(m, stateName, params) ==
  SelectSeq(m.transitions,
            LAMBDA e : e.value.from = stateName /\ Holds(e.value.condition, params))

\* update called conditions of transitions out of the state that was current
\* and no others (all of them when none returned true), moved to the `to` of
\* one that returned true (stayed when none did), and then called the callback
\* of the state it ended in, once.
ChecksThenRunsCurrent(m, params, after, log) ==
  /\ \A i \in 1..Len(ConditionsIn(log)) :
       ConditionsIn(log)[i].of[1] = m.currentState[1]
  /\ EnabledFrom(m, m.currentState[1], params) = <<>>
       => ConditionsIn(log) =
            [i \in 1..Len(TransitionsFrom(m, m.currentState[1])) |->
               Invoked("condition", TransitionsFrom(m, m.currentState[1])[i].key)]
  /\ IF EnabledFrom(m, m.currentState[1], params) = <<>>
     THEN after.currentState = m.currentState
     ELSE \E i \in 1..Len(EnabledFrom(m, m.currentState[1], params)) :
            after.currentState =
              Some(EnabledFrom(m, m.currentState[1], params)[i].value.to)
  /\ CallbacksIn(log) = <<Invoked("callback", after.currentState[1])>>
  /\ log[Len(log)].kind = "callback"

\* C22: update(dt, params) first evaluates the transitions whose from is the
\* current state and moves to the `to` of one whose condition returns true,
\* then invokes the callback of the state that is then current, exactly once
\* and no other; with no state entered it invokes no condition and no callback.
C22_TransitionThenCallback ==
  [][MachineUpdateStep
       => IF character.stateMachine.currentState = Null
          THEN calls' = <<>> /\ character' = character
          ELSE ChecksThenRunsCurrent(character.stateMachine, event'.at,
                                     character'.stateMachine, calls')]_vars

\* The conditions in a list of calls that returned true: the transitions taken.
TakenIn(m, params, log) ==
  SelectSeq(ConditionsIn(log),
            LAMBDA c : \E i \in 1..Len(m.transitions) :
                         /\ m.transitions[i].key = c.of
                         /\ Holds(m.transitions[i].value.condition, params))

\* C33: update takes at most one transition: the state current after it is
\* the state that was current before, or the `to` of a transition out of that
\* state whose condition held; no transition out of the state just entered is
\* taken in the same call.
C33_AtMostOneTransition ==
  [][(MachineUpdateStep /\ character.stateMachine.currentState # Null)
       => /\ Len(TakenIn(character.stateMachine, event'.at, calls')) <= 1
          /\ \/ character'.stateMachine.currentState = character.stateMachine.currentState
             \/ \E i \in 1..Len(EnabledFrom(character.stateMachine,
                                            character.stateMachine.currentState[1],
                                            event'.at)) :
                  character'.stateMachine.currentState =
                    Some(EnabledFrom(character.stateMachine,
                                     character.stateMachine.currentState[1],
                                     event'.at)[i].value.to)]_vars

--------------------------------------------------------------------------
\* Properties of the IKSolver (checked under SpecIK)

MoveLimbStep == event'.n = event.n + 1 /\ event'.type = "moveLimbToTarget"

\* The solver moveLimbToTarget finds under a limb's name.
SolverOf(ch, limbName) == ch.ikSolvers[KeyIndexOf(ch.ikSolvers, limbName)].value

\* The bone at place i has the bone rootBoneId above it: as its parent, or
\* further up.
RECURSIVE Below(_, _, _)
BelowParent(bs, p, rootBoneId) ==
  p # 0 /\ (bs[p].id = rootBoneId \/ Below(bs, p, rootBoneId))

Below(bs, i, rootBoneId) == BelowParent(bs, ParentIndex(bs, bs[i].bone), rootBoneId)

Descends(solver, bs) ==
  /\ BoneIndex(bs, solver.endBoneId) # 0
  /\ Below(bs, BoneIndex(bs, solver.endBoneId), solver.rootBoneId)

\* C23: when solve(target) returns for a solver whose end bone is a descendant
\* of its root bone (the end bone's parent being the root bone included), the
\* end bone's mesh is at the target.
C23_EndReachesTarget ==
  [][(/\ MoveLimbStep
      /\ error' = ""
      /\ KeyIndexOf(character.ikSolvers, event'.at[1]) # 0
      /\ Descends(SolverOf(character, event'.at[1]), bones))
       => objects'[SolverOf(character, event'.at[1]).endBoneId].position = event'.at[2]]_vars

--------------------------------------------------------------------------
\* Properties of the engine beside another writer (checked under SpecShared)

\* repeatCount is a finite count.
FiniteRepeat(anim) == ~(anim.repeatCount[1] = "str" /\ anim.repeatCount[2] = "indefinite")

\* The property of its node a track writes.
TargetValue(anim, objs) == getPropertyValue(objs[anim.targetId], anim.attributeName)

--------------------------------------------------------------------------
\* Properties of the engine's timing (checked under Spec)

\* C25: an update that leaves the engine clock below a track's begin time does
\* not evaluate the track, hence writes nothing to its target property, and
\* leaves the track with hasStarted = false and isActive = false.
C25_StartDelayGuards ==
  [][\A i \in 1..Len(activeAnimations) :
       (/\ AnyUpdateStep
        /\ FLt(clock'.time, activeAnimations[i].anim.startTime))
         => /\ ~activeAnimations'[i].anim.hasStarted
            /\ ~activeAnimations'[i].anim.isActive
            /\ EvaluatedAt(evals', activeAnimations[i].key) = {}]_vars

\* The engine clock after the first k calls of the history: the time steps of
\* its updates added up as update adds them.
RECURSIVE ClockAfter(_)
ClockAfter(k) == IF k = 0 THEN Zero ELSE FAdd(ClockAfter(k - 1), history[k].delta)

\* The place in the history of the registration that made the track of `key`.
RegistrationOf(key) ==
  CHOOSE r \in 1..Len(history) :
    /\ history[r].op = "register" /\ history[r].key = key
    /\ \A k \in (r + 1)..Len(history) :
         ~(history[k].op = "register" /\ history[k].key = key)

\* The time that has passed on the engine clock, at `time`, since the track
\* of `key` was registered.
SinceRegistration(key, time) == FSub(time, ClockAfter(RegistrationOf(key)))

\* C26: delay and cycle time count from the registration: with time steps
\* >= 0, an update evaluates a track that has not started yet exactly when
\* `begin` seconds or more have passed on the clock since the track was
\* registered, and then at the progress of the time past that delay,
\* min((since - begin) / duration, 1).
C26_TimedFromRegistration ==
  [][\A i \in 1..Len(activeAnimations) :
       (/\ AnyUpdateStep
        /\ \A k \in 1..Len(history') : FGe(history'[k].delta, Zero)
        /\ Fresh(activeAnimations[i].anim)
        /\ activeAnimations[i].anim.targetId \in DOMAIN objects
        /\ error' = "")
         => IF FGe(SinceRegistration(activeAnimations[i].key, clock'.time),
                   activeAnimations[i].anim.startTime)
            THEN EvaluatedAt(evals', activeAnimations[i].key) =
                   { Progress(FSub(SinceRegistration(activeAnimations[i].key, clock'.time),
                                   activeAnimations[i].anim.startTime),
                              activeAnimations[i].anim.duration) }
            ELSE EvaluatedAt(evals', activeAnimations[i].key) = {}]_vars

--------------------------------------------------------------------------
\* Properties of the engine's progress (checked under SpecTiming)

\* The calls so far had time steps that are numbers >= 0.
Advanced(h) == \A k \in 1..Len(h) : FGe(h[k].delta, Zero)

\* C27: the progress every update passes to the interpolation of a track lies
\* in [0, 1], whatever calls led to the state (stated for the calls whose
\* time steps are numbers >= 0).
C27_ProgressInUnitInterval ==
  Advanced(history)
    => \A j \in 1..Len(evals) : FLe(Zero, evals[j].progress) /\ FLe(evals[j].progress, One)

\* C28: a track whose duration is 0 is evaluated at progress 1 by the update
\* in which it starts, whatever time step >= 0 the update has, the clock
\* standing exactly on the begin time included.
C28_ZeroDurationEndsAtOnce ==
  [][\A i \in 1..Len(activeAnimations) :
       (/\ AnyUpdateStep
        /\ Advanced(history')
        /\ activeAnimations[i].anim.duration = Zero
        /\ ~activeAnimations[i].anim.hasStarted
        /\ EvaluatedAt(evals', activeAnimations[i].key) # {})
         => EvaluatedAt(evals', activeAnimations[i].key) = {One}]_vars

--------------------------------------------------------------------------
\* Frame properties of update (checked under Spec)

\* The fields of a registered track that describe it, as opposed to its
\* timing state.
TrackDescriptorFields ==
  {"targetId", "attributeName", "from", "to", "values", "keyTimes", "duration",
   "begin", "startTime", "repeatCount", "fill"}

TrackDescriptor(anim) == [f \in TrackDescriptorFields |-> anim[f]]

\* C29: update changes no descriptor field of a registered track (targetId,
\* attributeName, from, to, values, keyTimes, duration, begin/startTime,
\* repeatCount, fill) and not the animation objects of the document handed to
\* registerAnimation; it changes the timing state only.
C29_DescriptorsImmutable ==
  [][AnyUpdateStep
       => /\ animations' = animations
          /\ Len(activeAnimations') = Len(activeAnimations)
          /\ \A i \in 1..Len(activeAnimations) :
               TrackDescriptor(activeAnimations'[i].anim)
                 = TrackDescriptor(activeAnimations[i].anim)]_vars

\* The fields of a node, and the field a track's attributeName leads to (with
\* the kind of object an assigned rotation is).
NodeFields == {"position", "rotation", "rotationKind", "scale", "material"}

WritesField(attributeName, field) ==
  \/ SplitPath(attributeName)[1] = field
  \/ attributeName = "rotation" /\ field = "rotationKind"

\* C30: update adds no node to the objects registry and removes none, and a
\* node field it changes is the attributeName property of the target of a
\* track that is active in that call (active before it, or started by it).
C30_UpdateFrame ==
  [][AnyUpdateStep
       => /\ DOMAIN objects' = DOMAIN objects
          /\ \A id \in DOMAIN objects, field \in NodeFields :
               objects'[id][field] # objects[id][field]
                 => \E i \in 1..Len(activeAnimations) :
                      /\ Due(activeAnimations[i].anim, clock'.time)
                      /\ activeAnimations[i].anim.targetId = id
                      /\ WritesField(activeAnimations[i].anim.attributeName, field)]_vars

\* C30 witness: of two tracks on one node, an update has evaluated both and
\* changed the rotation and the position they name, and nothing else.
C30_Witness ==
  /\ animations = <<Spin, Slide("3")>>
  /\ Len(activeAnimations) = 2
  /\ LastCall.op = "update"
  /\ Len(evals) = 2
  /\ objects["cube"].rotation # NewNode.rotation
  /\ objects["cube"].rotationKind = "Array"
  /\ objects["cube"].position # NewNode.position
  /\ objects["cube"].scale = NewNode.scale
  /\ objects["cube"].material = NewNode.material

--------------------------------------------------------------------------
\* The engine under frames that keep coming: every track of the document is
\* registered and update is called with a positive time step again and again.

LiveScenes ==
  { <<Slide("1")>>, <<Slide("2")>>, <<Slide("3")>>, <<Bounce>>, <<Late>>,
    <<Spin, Slide("2")>>, <<Broken>>, <<Broken, Slide("1")>> }

\* Positive time steps.
LiveDeltas == {Lit(2, 1), Lit(4, 1)}

InitLive ==
  /\ clock = [time |-> Zero, delta |-> Zero]
  /\ objects = BuiltObjects
  /\ animations \in LiveScenes
  /\ activeAnimations = setupAnimations(animations, Len(animations))
  /\ registered = Len(animations)
  /\ history = [i \in 1..Len(animations) |->
                  [op |-> "register",
                   key |-> AnimKey(animations[i].targetId, animations[i].animation),
                   delta |-> Zero]]
  /\ evals = <<>>
  /\ error = ""
  /\ rotationControllers = <<>>
  /\ event = NoEvent
  /\ pointer = NoPointer
  /\ initial = objects
  /\ calls = <<>>
  /\ cameras = 1
  /\ browser = NoBrowser
  /\ parser = NoParser
  /\ bones = <<>>
  /\ character = NoCharacter
  /\ saved = <<>>

NextLive == \E deltaTime \in LiveDeltas : Update(deltaTime)

\* The step records one more call of update with a positive time step.
UpdateCalled ==
  /\ Len(Updates) < MaxUpdates
  /\ \E deltaTime \in LiveDeltas :
       history' = Append(history, [op |-> "update", key |-> "", delta |-> deltaTime])

\* The frames keep coming: update is called again whenever it can be.
SpecLive == InitLive /\ [][NextLive]_vars /\ WF_history(UpdateCalled)

\* A track of the claim: finite repeatCount, positive duration, target present.
FiniteTrack(anim) ==
  /\ FiniteRepeat(anim)
  /\ FLt(Zero, anim.duration)
  /\ anim.targetId \in DOMAIN objects

--------------------------------------------------------------------------
\* Properties of the puppet transforms (checked under SpecPuppet)

\* The meshes are `meshes` but for one transform of one bone.
OnlyChanges(after, meshes, boneId, field, value) ==
  after = [meshes EXCEPT ![boneId][field] = value]

\* v with amount added to its k-th component.
AddedAt(v, k, amount) == [v EXCEPT ![k] = FAdd(v[k], amount)]

\* The absolute forms set the transform to the vector given and nothing else.
AbsoluteSets(boneId, v) ==
  /\ OnlyChanges(rotate(bones, objects, boneId, v), objects, boneId, "rotation", v)
  /\ OnlyChanges(move(bones, objects, boneId, v), objects, boneId, "position", v)

\* The relative forms add the amount to the named component and nothing else.
RelativeAdds(boneId, a) ==
  /\ OnlyChanges(rotateX(bones, objects, boneId, a), objects, boneId, "rotation",
                 AddedAt(objects[boneId].rotation, 1, a))
  /\ OnlyChanges(rotateY(bones, objects, boneId, a), objects, boneId, "rotation",
                 AddedAt(objects[boneId].rotation, 2, a))
  /\ OnlyChanges(rotateZ(bones, objects, boneId, a), objects, boneId, "rotation",
                 AddedAt(objects[boneId].rotation, 3, a))
  /\ OnlyChanges(moveX(bones, objects, boneId, a), objects, boneId, "position",
                 AddedAt(objects[boneId].position, 1, a))
  /\ OnlyChanges(moveY(bones, objects, boneId, a), objects, boneId, "position",
                 AddedAt(objects[boneId].position, 2, a))
  /\ OnlyChanges(moveZ(bones, objects, boneId, a), objects, boneId, "position",
                 AddedAt(objects[boneId].position, 3, a))

\* rotateX(a) then rotateX(b) is rotateX(a + b); rotateX(a) then rotateX(-a)
\* restores the rotation.
Composes(boneId, a, b) ==
  rotateX(bones, rotateX(bones, objects, boneId, a), boneId, b)
    = rotateX(bones, objects, boneId, FAdd(a, b))

Restores(boneId, a) ==
  rotateX(bones, rotateX(bones, objects, boneId, a), boneId, Neg(a)) = objects

\* No operation on the bone changes anything.
ChangesNothing(boneId, v, a) ==
  /\ rotate(bones, objects, boneId, v) = objects
  /\ move(bones, objects, boneId, v) = objects
  /\ scale(bones, objects, boneId, v) = objects
  /\ rotateX(bones, objects, boneId, a) = objects
  /\ rotateY(bones, objects, boneId, a) = objects
  /\ rotateZ(bones, objects, boneId, a) = objects
  /\ moveX(bones, objects, boneId, a) = objects
  /\ moveY(bones, objects, boneId, a) = objects
  /\ moveZ(bones, objects, boneId, a) = objects

\* The sum x + y is a number of the format: the addition is not rounded.
ExactSum(x, y) ==
  /\ IsFinite(x) /\ IsFinite(y)
  /\ FAdd(x, y) = Frac(x[1] * y[2] + y[1] * x[2], x[2] * y[2])

\* C32 as stated: rotate/move set the transform to exactly the given vector;
\* rotateX/Y/Z and moveX/Y/Z add the amount to exactly the named component
\* and leave everything else; rotateX(a) then rotateX(b) equals rotateX(a+b)
\* and rotateX(a) then rotateX(-a) restores the rotation; an operation on a
\* bone that was not set up changes nothing.
C32_TransformsCompose ==
  \A boneId \in PuppetIds :
    IF BoneIndex(bones, boneId) # 0
    THEN /\ \A v \in PuppetTurns : AbsoluteSets(boneId, v)
         /\ \A a \in PuppetAmounts : RelativeAdds(boneId, a) /\ Restores(boneId, a)
         /\ \A a \in PuppetAmounts, b \in PuppetAmounts : Composes(boneId, a, b)
    ELSE \A v \in PuppetTurns, a \in PuppetAmounts : ChangesNothing(boneId, v, a)

\* C32, amended: as above, with the relative forms adding in floating point:
\* rotateX(a) then rotateX(b) equals rotateX(a+b), and rotateX(-a) undoes
\* rotateX(a), whenever none of the additions involved is rounded.
C32_TransformsComposeRounded ==
  \A boneId \in PuppetIds :
    IF BoneIndex(bones, boneId) # 0
    THEN /\ \A v \in PuppetTurns : AbsoluteSets(boneId, v)
         /\ \A a \in PuppetAmounts :
              /\ RelativeAdds(boneId, a)
              /\ ExactSum(objects[boneId].rotation[1], a) => Restores(boneId, a)
         /\ \A a \in PuppetAmounts, b \in PuppetAmounts :
              (/\ ExactSum(objects[boneId].rotation[1], a)
               /\ ExactSum(FAdd(objects[boneId].rotation[1], a), b)
               /\ ExactSum(a, b)
               /\ ExactSum(objects[boneId].rotation[1], FAdd(a, b)))
                => Composes(boneId, a, b)
    ELSE \A v \in PuppetTurns, a \in PuppetAmounts : ChangesNothing(boneId, v, a)

\* C32 witness: the torso was turned to 0.5,1,0 and then rotateX(0.5) made its
\* rotation 1,1,0 without touching anything else; here the additions are exact.
C32_Witness ==
  /\ event.type = "rotateX"
  /\ objects["torso"].rotation = <<One, One, Zero>>
  /\ objects["torso"].position = NewNode.position
  /\ objects["left-arm"] = initial["left-arm"]
  /\ BoneIndex(bones, "left-hand") = 0
  /\ ExactSum(objects["torso"].rotation[1], Lit(1, 2))
  /\ Composes("torso", Lit(1, 2), Lit(1, 2))

--------------------------------------------------------------------------
\* Properties of the skeleton (checked under SpecSkeleton)

\* The ids of the set-up bones whose parent is the bone `id`.
ChildIds(bs, id) == { bs[k].id : k \in { j \in 1..Len(bs) : bs[j].bone.parent = Some(id) } }

\* The list holds every element of the set, once, and nothing else.
ListsOnce(list, set) ==
  /\ { list[k] : k \in 1..Len(list) } = set
  /\ \A j \in 1..Len(list), k \in 1..Len(list) : list[j] = list[k] => j = k

\* C34: after any sequence of setupBones calls on one controller, every
\* bone's children list holds exactly the ids of the set-up bones whose parent
\* it is, each once, and its original position and rotation are those its
\* mesh had when the bone was first set up.
C34_HierarchyInvariant ==
  \A i \in 1..Len(bones) :
    /\ ListsOnce(bones[i].bone.children, ChildIds(bones, bones[i].id))
    /\ bones[i].bone.originalPosition = initial[bones[i].id].position
    /\ bones[i].bone.originalRotation
         = [x |-> initial[bones[i].id].rotation[1],
            y |-> initial[bones[i].id].rotation[2],
            z |-> initial[bones[i].id].rotation[3]]

--------------------------------------------------------------------------
\* Termination of the IK chain walk (checked under SpecChain)

SetupIKStep == event'.n = event.n + 1 /\ event'.type = "setupIK"

\* C35: constructing an IKSolver (calculateChainLength) and calling solve
\* return for every bone map setupBones can produce, also when the parent
\* references form a cycle, or a bone names itself as parent, off the root.
C35_ChainWalkTerminates ==
  [][(SetupIKStep \/ MoveLimbStep) => error' # "Hang"]_vars

--------------------------------------------------------------------------
\* Drag samples without movement (checked under SpecControl)

\* The step is a move sample taken while dragging at the place of the
\* previous sample (or of the press).
StillSampleStep ==
  /\ MoveStep
  /\ pointer.pressed
  /\ event'.at = <<pointer.at>>

\* C36: a drag sample with zero movement leaves the target node's rotation
\* unchanged, whatever rotation the node has.
C36_StillSampleKeepsRotation ==
  [][StillSampleStep => objects'[TargetId].rotation = objects[TargetId].rotation]_vars

--------------------------------------------------------------------------
\* Properties of GameCharacter.jump (checked under SpecJump)

\* The step is a call of jump, or the browser running one of the callbacks the
\* jumps left with it.
JumpStep == event'.n = event.n + 1 /\ event'.type = "jump"
JumpAnimationStep == JumpStep \/ (event' = event /\ objects' # objects)

\* C37: jump only moves the torso vertically and returns it to where it was:
\* no step of a jump changes the torso's x or z, and once the animations have
\* finished, with nothing else having moved the torso since the jump was
\* called, the torso is where it was at that call.
C37_JumpReturns ==
  [][/\ JumpAnimationStep
          => /\ objects'["torso"].position[1] = objects["torso"].position[1]
             /\ objects'["torso"].position[3] = objects["torso"].position[3]
     /\ (event'.type = "jump" /\ browser'.callbacks = <<>>)
          => objects'["torso"].position = event'.at[1]]_vars

--------------------------------------------------------------------------
\* SVG3Parser: one parser instance parsing documents in sequence
\*
\* A document is its root's tag name and the children of its <scene>; an
\* element is [tag, id, animations, children], animations the animation objects
\* of its animate, animateTransform and set children in document order.

Element(tag, id, anims, children) ==
  [tag |-> tag, id |-> id, animations |-> anims, children |-> children]

Document(root, children) == [root |-> root, children |-> children]

\* The documents handed to parse: one track, two tracks on one mesh, a track
\* on a mesh inside a group that has a track of its own, no track at all, and
\* a document whose root is not <svg3>.
Documents ==
  { Document("svg3", <<Element("mesh", "cube", <<Spin.animation>>, <<>>)>>),
    Document("svg3", <<Element("mesh", "cube", <<Slide("1").animation, Bounce.animation>>,
                               <<>>)>>),
    Document("svg3", <<Element("group", "rig", <<Late.animation>>,
                               <<Element("mesh", "cube", <<Spin.animation>>, <<>>)>>),
                       Element("mesh", "ball", <<>>, <<>>)>>),
    Document("svg3", <<Element("mesh", "cube", <<>>, <<>>)>>),
    Document("svg", <<Element("mesh", "cube", <<Spin.animation>>, <<>>)>>) }

\* The number of parse calls followed.
MaxParses == 3

\* SVG3Parser.parseAnimations: this.animationTracks after the call on el
parseAnimations(animationTracks, el) ==
  animationTracks \o [i \in 1..Len(el.animations) |-> Track(el.id, el.animations[i])]

\* SVG3Parser.parseChildren from the i-th child on and SVG3Parser.parseElement:
\* this.animationTracks after the call
RECURSIVE parseChildren(_, _, _)
RECURSIVE parseElement(_, _)
parseChildren(animationTracks, children, i) ==
  IF i > Len(children) THEN animationTracks
  ELSE IF children[i].tag \in {"mesh", "group", "light", "camera"}
       THEN parseChildren(parseElement(animationTracks, children[i]), children, i + 1)
       ELSE parseChildren(animationTracks, children, i + 1)

parseElement(animationTracks, el) ==
  IF el.tag \in {"group", "scene"}
  THEN parseChildren(parseAnimations(animationTracks, el), el.children, 1)
  ELSE parseAnimations(animationTracks, el)

\* SVG3Parser.parse: the parser after the call. The scene object's `animations`
\* is this.animationTracks itself, so every scene object returned so far shows
\* the array as it is now.
parse(p, doc) ==
  [animationTracks |-> parseChildren(p.animationTracks, doc.children, 1),
   returned |->
     [i \in 1..Len(p.returned) |->
        [p.returned[i] EXCEPT
           !.animations = parseChildren(p.animationTracks, doc.children, 1)]]
     \o <<[document |-> doc,
           animations |-> parseChildren(p.animationTracks, doc.children, 1)]>>]

\* parser.parse(svgString); a root other than <svg3> throws before anything
\* is parsed
Parse(doc) ==
  /\ Len(history) < MaxParses
  /\ history' = Append(history, [op |-> "parse", key |-> doc.root, delta |-> Zero])
  /\ IF doc.root # "svg3"
     THEN /\ error' = "Invalid SVG3"
          /\ parser' = parser
     ELSE /\ error' = ""
          /\ parser' = parse(parser, doc)
  /\ UNCHANGED <<clock, activeAnimations, animations, registered, evals, objects,
                 controlVars, initial, calls, cameras, browser, gameVars>>

\* new SVG3ThreeRenderer(canvas, sceneData).init() on the scene object the
\* last parse returned: setupAnimations registers sceneData.animations
SetupAnimations ==
  /\ parser.returned # <<>>
  /\ registered = 0
  /\ animations' = parser.returned[Len(parser.returned)].animations
  /\ activeAnimations' = setupAnimations(animations', Len(animations'))
  /\ registered' = Len(animations')
  /\ UNCHANGED <<clock, evals, error, history, objects, controlVars, initial, loopVars,
                 gameVars>>

InitParser ==
  /\ clock = [time |-> Zero, delta |-> Zero]
  /\ activeAnimations = <<>>
  /\ objects = BuiltObjects
  /\ animations = <<>>
  /\ registered = 0
  /\ history = <<>>
  /\ evals = <<>>
  /\ error = ""
  /\ rotationControllers = <<>>
  /\ event = NoEvent
  /\ pointer = NoPointer
  /\ initial = objects
  /\ calls = <<>>
  /\ cameras = 1
  /\ browser = NoBrowser
  /\ parser = NoParser
  /\ bones = <<>>
  /\ character = NoCharacter
  /\ saved = <<>>

NextParser ==
  \/ \E doc \in Documents : Parse(doc)
  \/ SetupAnimations

SpecParser == InitParser /\ [][NextParser]_vars

\* C38: every parse call returns in `animations` exactly the tracks of the
\* document passed to that call, one per animation element with the id of the
\* element's parent, also when the parser has parsed before; and a scene object
\* returned earlier is not changed by a later parse call.
ParseStep == Len(parser'.returned) = Len(parser.returned) + 1

DocumentTracks(doc) == parseChildren(<<>>, doc.children, 1)

--------------------------------------------------------------------------
\* The registry's keys: registerAnimation called with ids and attribute names
\* that contain '-'

\* The ids and the attribute names of the calls.
RegistryTargets == {"a-b", "a", "cube"}
RegistryAttributes == {"c", "b-c", "position"}

\* The number of registerAnimation calls followed.
MaxRegistrations == 3

\* engine.registerAnimation(targetId, animationData); `animations` keeps the
\* arguments of the calls made so far
RegisterAnimation(targetId, animationData) ==
  /\ registered < MaxRegistrations
  /\ RegisterTrack(Track(targetId, animationData))
  /\ animations' = Append(animations, Track(targetId, animationData))
  /\ registered' = registered + 1
  /\ evals' = <<>>
  /\ error' = ""
  /\ UNCHANGED <<clock, objects, controlVars, initial, loopVars, gameVars>>

InitRegistry ==
  /\ clock = [time |-> Zero, delta |-> Zero]
  /\ activeAnimations = <<>>
  /\ objects = BuiltObjects
  /\ animations = <<>>
  /\ registered = 0
  /\ history = <<>>
  /\ evals = <<>>
  /\ error = ""
  /\ rotationControllers = <<>>
  /\ event = NoEvent
  /\ pointer = NoPointer
  /\ initial = objects
  /\ calls = <<>>
  /\ cameras = 1
  /\ browser = NoBrowser
  /\ parser = NoParser
  /\ bones = <<>>
  /\ character = NoCharacter
  /\ saved = <<>>

NextRegistry ==
  \E targetId \in RegistryTargets, attributeName \in RegistryAttributes :
    RegisterAnimation(targetId,
                      FromTo(attributeName, <<"0", "0", "0">>, <<"1", "0", "0">>,
                             <<"4", "s">>, "1"))

SpecRegistry == InitRegistry /\ [][NextRegistry]_vars

\* C39: registerAnimation calls with different (targetId, attributeName) pairs
\* yield separately retained tracks: every pair registered so far has its own
\* track in the registry, also when the identifiers contain '-'.
Retained(targetId, attributeName) ==
  \E k \in 1..Len(activeAnimations) :
    /\ activeAnimations[k].anim.targetId = targetId
    /\ activeAnimations[k].anim.attributeName = attributeName

C39_KeysInjective ==
  \A i \in 1..Len(animations) :
    Retained(animations[i].targetId, animations[i].animation.attributeName)

==========================================================================
